---- MODULE Spec2Model ----
(***************************************************************************)
(* A model of the ferros capability algebra (src/src/fancy.rs) and of the  *)
(* recursive paging chain of the VSpace (src/src/vspace.rs).               *)
(*                                                                         *)
(* Compile-time quantities (FreeSlots, BitSize, Count, ChildRadix) are     *)
(* carried as record fields; a call whose `where` clause cannot be         *)
(* satisfied is modelled as a "rejected" outcome that changes nothing and  *)
(* issues no kernel call.  Moves are modelled by removing the moved value  *)
(* from the bag of live handles / live table views.                        *)
(***************************************************************************)
EXTENDS Integers, Sequences, FiniteSets, Bags, TLC

VARIABLES
    handles,    \* bag of live Capability / ChildCapability values
    views,      \* bag of live CNode<FreeSlots, Role> values
    kcaps,      \* kernel: the occupied capability slots
    kwm,        \* kernel: free index (bytes handed out) of each untyped cap
    kcalls,     \* kernel calls issued by the last operation, in order
    res,        \* what the last operation returned to its caller
    halves,     \* cptrs of split halves nobody has used since the split
    nops,       \* number of operations called so far
    spent,      \* history: the slots taken by calls the kernel refused
    dead,       \* history: the handles moved into calls the kernel refused
    arch,       \* VSpace: the architecture the AddressSpace chain is built for
    next_addr,  \* VSpace: next_addr
    vs_untyped, \* VSpace: granules the untyped supply can still be retyped into
    vs_slots,   \* VSpace: slots (WCNodeSlotsData: offset, size)
    pk,         \* kernel: the granules mapped in the address space
    ptrace,     \* layer calls and retypes made by the last VSpace call, in order
    pres,       \* what the last VSpace call returned
    pnops,      \* number of VSpace calls so far
    asid,       \* VSpace: the address-space identifier (asid.cap_data.asid)
    kpages,     \* kernel: the page capabilities that are mapped, and where
    regions,    \* the live memory regions handed back by the VSpace
    handed,     \* history: the virtual addresses handed out by earlier calls
    items,      \* Allocator: items, the untyped blocks of the boot inventory
    ares,       \* what the last call of the Allocator returned
    anops,      \* number of Allocator calls so far
    bootinfo,   \* seL4_BootInfo: untyped.start and untypedList
    booted,     \* what Allocator::bootstrap returned, "no" before the call
    rpc,        \* Responder: where reply_recv_with_notification stands
    sender_badge,   \* its local sender_badge
    msg_len,    \* msg_info.length_words() of its local msg_info
    rlog,       \* the receives, handler calls and replies it made, in order
    awaiting,   \* whether a caller is blocked waiting for its reply
    spins       \* times the loop came round without new data

capvars == <<handles, views, kcaps, kwm, kcalls, res, halves, nops, spent, dead>>
pvars == <<arch, next_addr, vs_untyped, vs_slots, pk, ptrace, pres, pnops,
           asid, kpages, regions, handed>>
avars == <<items, ares, anops, bootinfo, booted>>
rvars == <<rpc, sender_badge, msg_len, rlog, awaiting, spins>>
vars == <<capvars, pvars, avars, rvars>>

-----------------------------------------------------------------------------
(* Bounds of the model *)

\* capacity given to the root table view (U1024 in the program)
MaxRootSlots == 4
\* largest number of live table views
MaxViews == 3
\* largest child radix tried by retype_local_cnode
MaxChildRadix == 1
\* largest number of operations in one run
MaxOps == 4

-----------------------------------------------------------------------------
(* Program constants *)

RootNextFreeSlot == 1000
RootRadix == 19
\* src_root of copy_local, which is also seL4_CapInitThreadCNode
RootCNodeCptr == 2
\* slot of the untyped handed over at boot
BootUntypedCptr == 20
MIN_UNTYPED_SIZE_BITS == 4

\* sizes of the untyped blocks the boot inventory may hand over
BootUntypedBits == {5, 12, 13}

\* the FixedSizeCap implementors that are retyped in the model
FixedSizeCap == {"PageTable", "Page", "PageDirectory"}

Pow2(n) == 2 ^ n

-----------------------------------------------------------------------------
(* The kernel, as far as the capability algebra can observe it *)

\* the kernel's status codes (seL4_Error)
seL4_NoError == 0
seL4_Error == [InvalidArgument |-> 1, InvalidCapability |-> 2,
               IllegalOperation |-> 3, RangeError |-> 4, AlignmentError |-> 5,
               FailedLookup |-> 6, DeleteFirst |-> 8, RevokeFirst |-> 9,
               NotEnoughMemory |-> 10]
seL4_InvalidArgument == seL4_Error.InvalidArgument
seL4_InvalidCapability == seL4_Error.InvalidCapability
seL4_RangeError == seL4_Error.RangeError
seL4_FailedLookup == seL4_Error.FailedLookup
seL4_DeleteFirst == seL4_Error.DeleteFirst
seL4_RevokeFirst == seL4_Error.RevokeFirst
seL4_NotEnoughMemory == seL4_Error.NotEnoughMemory
seL4_SlotBits == 4

\* size in bits of the kernel object behind each fixed-size capability type
\* (PageTableBits, PageBits, PageDirectoryBits of 32-bit ARM)
ObjBits(t) ==
    CASE t = "PageTable" -> 10
      [] t = "Page" -> 12
      [] t = "Endpoint" -> 4
      [] t = "Notification" -> 4
      [] t = "PageDirectory" -> 14

HasCap(table, slot) == \E c \in kcaps : c.table = table /\ c.slot = slot

CapAt(table, slot) == CHOOSE c \in kcaps : c.table = table /\ c.slot = slot

AlignUp(x, a) == ((x + a - 1) \div a) * a

\* size in bits of one object a retype call asks for
RetypeObjBits(call) ==
    CASE call.type = "Untyped" -> call.size_bits
      [] call.type = "CNode" -> call.size_bits + seL4_SlotBits
      [] OTHER -> ObjBits(call.type)

\* status seL4_Untyped_Retype returns for a call
KernelRetypeStatus(call) ==
    IF ~HasCap(RootCNodeCptr, call.service) THEN seL4_InvalidCapability
    ELSE IF CapAt(RootCNodeCptr, call.service).type # "Untyped"
        THEN seL4_InvalidCapability
    ELSE IF call.type = "Untyped" /\ call.size_bits < MIN_UNTYPED_SIZE_BITS
        THEN seL4_InvalidArgument
    ELSE IF call.type = "CNode" /\ call.size_bits = 0 THEN seL4_InvalidArgument
    ELSE IF ~HasCap(RootCNodeCptr, call.root) THEN seL4_FailedLookup
    ELSE IF CapAt(RootCNodeCptr, call.root).type # "CNode" THEN seL4_FailedLookup
    ELSE IF call.offset + call.num > Pow2(CapAt(RootCNodeCptr, call.root).bits)
        THEN seL4_RangeError
    ELSE IF \E i \in 0 .. call.num - 1 : HasCap(call.root, call.offset + i)
        THEN seL4_DeleteFirst
    ELSE LET ut == CapAt(RootCNodeCptr, call.service)
             sz == Pow2(RetypeObjBits(call))
         IN  IF AlignUp(kwm[<<ut.table, ut.slot>>], sz) + call.num * sz
                    > Pow2(ut.bits)
             THEN seL4_NotEnoughMemory
             ELSE seL4_NoError

\* the capability slots of the kernel after a successful retype call
KernelRetypeCaps(call) ==
    kcaps \cup
    { [table |-> call.root, slot |-> call.offset + i, type |-> call.type,
       bits |-> IF call.type \in {"Untyped", "CNode"} THEN call.size_bits ELSE 0,
       obj |-> <<call.root, call.offset + i>>] : i \in 0 .. call.num - 1 }

\* the free indices of the untyped caps after a successful retype call
KernelRetypeWm(call) ==
    LET ut == CapAt(RootCNodeCptr, call.service)
        sz == Pow2(RetypeObjBits(call))
        used == AlignUp(kwm[<<ut.table, ut.slot>>], sz) + call.num * sz
        fresh == IF call.type = "Untyped"
                 THEN { <<call.root, call.offset + i>> : i \in 0 .. call.num - 1 }
                 ELSE {}
    IN  [o \in DOMAIN kwm \cup fresh |->
            IF o = <<ut.table, ut.slot>> THEN used
            ELSE IF o \in fresh THEN 0 ELSE kwm[o]]

\* status seL4_CNode_Copy returns for a call
KernelCopyStatus(call) ==
    IF ~HasCap(RootCNodeCptr, call.service) THEN seL4_FailedLookup
    ELSE IF CapAt(RootCNodeCptr, call.service).type # "CNode" THEN seL4_FailedLookup
    ELSE IF HasCap(call.service, call.index) THEN seL4_DeleteFirst
    ELSE IF ~HasCap(call.src_root, call.src_index) THEN seL4_FailedLookup
    ELSE LET src == CapAt(call.src_root, call.src_index)
         IN  IF src.type = "Untyped" /\ kwm[<<src.table, src.slot>>] > 0
             THEN seL4_RevokeFirst
             ELSE seL4_NoError

\* the capability slots of the kernel after a successful copy call
KernelCopyCaps(call) ==
    LET src == CapAt(call.src_root, call.src_index)
    IN  kcaps \cup { [table |-> call.service, slot |-> call.index,
                      type |-> src.type, bits |-> src.bits, obj |-> src.obj] }

\* the free indices after a successful copy call: the copy of an untyped cap
\* takes over the block and the source cap is marked full
KernelCopyWm(call) ==
    LET src == CapAt(call.src_root, call.src_index)
    IN  IF src.type # "Untyped" THEN kwm
        ELSE [o \in DOMAIN kwm \cup { <<call.service, call.index>> } |->
                 IF o = <<src.table, src.slot>> THEN Pow2(src.bits)
                 ELSE IF o = <<call.service, call.index>>
                     THEN kwm[<<src.table, src.slot>>]
                 ELSE kwm[o]]

-----------------------------------------------------------------------------
(* Values of the program *)

Capability(cptr, type, bits) ==
    [cptr |-> cptr, type |-> type, bits |-> bits, role |-> "Local"]

ChildCapability(cptr, type) ==
    [cptr |-> cptr, type |-> type, bits |-> 0, role |-> "Child"]

CNode(radix, next_free_slot, cptr, free, role) ==
    [radix |-> radix, next_free_slot |-> next_free_slot, cptr |-> cptr,
     free |-> free, role |-> role]

CNodeSlot(cptr, offset) == [cptr |-> cptr, offset |-> offset]

root_cnode == CNode(RootRadix, RootNextFreeSlot, RootCNodeCptr, MaxRootSlots,
                    "CSpaceRoot")

wrap_untyped(cptr, bits) == Capability(cptr, "Untyped", bits)

\* consume_slot forgetting to advance next_free_slot
consume_slot_stale(v) ==
    << CNode(v.radix, v.next_free_slot, v.cptr, v.free - 1, v.role),
       CNodeSlot(v.cptr, v.next_free_slot) >>

\* CNode::consume_slot: the view with one slot less, and the slot taken
consume_slot(v) ==
    << CNode(v.radix, v.next_free_slot + 1, v.cptr, v.free - 1, v.role),
       CNodeSlot(v.cptr, v.next_free_slot) >>

RetypeCall(service, type, size_bits, root, offset, num) ==
    [call |-> "seL4_Untyped_Retype", service |-> service, type |-> type,
     size_bits |-> size_bits, root |-> root, index |-> 0, depth |-> 0,
     offset |-> offset, num |-> num]

CopyCall(service, index, src_root, src_index, rights) ==
    [call |-> "seL4_CNode_Copy", service |-> service, index |-> index,
     src_root |-> src_root, src_index |-> src_index, rights |-> rights]

B(x) == SetToBag({x})

SeqToBag(s) == LET Add(i) == B(s[i])
               IN  IF s = <<>> THEN EmptyBag
                   ELSE IF Len(s) = 1 THEN Add(1)
                   ELSE IF Len(s) = 2 THEN Add(1) (+) Add(2)
                   ELSE IF Len(s) = 3 THEN Add(1) (+) Add(2) (+) Add(3)
                   ELSE Add(1) (+) Add(2) (+) Add(3) (+) Add(4)

NoHandle == Capability(0, "None", 0)
NoView == CNode(0, 0, 0, 0, "None")

\* Result::Ok
Ok(op, src, view, newHandles, newViews) ==
    [op |-> op, status |-> "ok", err |-> 0, src |-> src, view |-> view,
     handles |-> newHandles, views |-> newViews, arg |-> 0, half |-> FALSE]

\* an error that drops the kernel's status
Err_dropped(op, src, view, kind, err) ==
    [op |-> op, status |-> kind, err |-> 0, src |-> src, view |-> view,
     handles |-> <<>>, views |-> <<>>, arg |-> 0, half |-> FALSE]

\* Result::Err(Error::UntypedRetype(err)) and Err(Error::CNodeCopy(err))
Err(op, src, view, kind, err) ==
    [op |-> op, status |-> kind, err |-> err, src |-> src, view |-> view,
     handles |-> <<>>, views |-> <<>>, arg |-> 0, half |-> FALSE]

\* a call the type checker refuses: its `where` clause has no solution
Rejected(op, src, view) ==
    [op |-> op, status |-> "rejected", err |-> 0, src |-> src, view |-> view,
     handles |-> <<>>, views |-> <<>>, arg |-> 0, half |-> FALSE]

\* one more operation is called
Step == nops < MaxOps /\ nops' = nops + 1

\* the result, with the call's type-level argument and whether its source was
\* a split half nobody had touched
With(r, arg, half) == [r EXCEPT !.arg = arg, !.half = half]

\* the kernel's log entry of a call and the status it returned
Logged(call, err) == [c |-> call, ret |-> err]

\* a failed call that leaves the value with the caller
MovedIn_kept(bag, x) == bag

\* a value moved into a call that failed is not handed back
MovedIn(bag, x) == bag (-) B(x)

Reject(op, src, view, arg) ==
    /\ res' = With(Rejected(op, src, view), arg, FALSE)
    /\ kcalls' = <<>>
    /\ UNCHANGED <<handles, views, kcaps, kwm, halves>>

-----------------------------------------------------------------------------
(* Operations of fancy.rs *)

\* number of slots an operation takes out of the view it is given
SlotsNeeded(r) ==
    CASE r.op \in {"quarter", "call_channel_with_waker"} -> 3
      [] r.op \in {"reserve_region", "reservation_iter"} -> r.arg
      [] r.op = "none" -> 0
      [] OTHER -> 1

\* the slots the call behind result r took out of its view
SlotsTaken(r) ==
    { <<r.view.cptr, r.view.next_free_slot + i>> : i \in 0 .. SlotsNeeded(r) - 1 }

\* the slots a view can still hand out
ViewSlots(v) == { <<v.cptr, v.next_free_slot + i>> : i \in 0 .. v.free - 1 }

Failed(r) == r.status \in {"UntypedRetype", "CNodeCopy"}

\* history of what the refused calls consumed
History ==
    /\ spent' = IF Failed(res') THEN spent \cup SlotsTaken(res') ELSE spent
    /\ dead' = IF res'.status = "UntypedRetype" THEN dead \cup {res'.src} ELSE dead

\* what every operation of the capability algebra leaves alone, and the history
CapFrame == History /\ UNCHANGED <<pvars, avars, rvars>>

CapInit ==
    /\ \E n \in BootUntypedBits :
        /\ handles = B(wrap_untyped(BootUntypedCptr, n))
        /\ kcaps = { [table |-> RootCNodeCptr, slot |-> RootCNodeCptr,
                      type |-> "CNode", bits |-> RootRadix,
                      obj |-> <<RootCNodeCptr, RootCNodeCptr>>],
                     [table |-> RootCNodeCptr, slot |-> BootUntypedCptr,
                      type |-> "Untyped", bits |-> n,
                      obj |-> <<RootCNodeCptr, BootUntypedCptr>>] }
    /\ views = B(root_cnode)
    /\ kwm = [o \in { <<RootCNodeCptr, BootUntypedCptr>> } |-> 0]
    /\ kcalls = <<>>
    /\ res = Rejected("none", NoHandle, NoView)
    /\ halves = {}
    /\ nops = 0
    /\ spent = {}
    /\ dead = {}

\* split asking for a child as large as its source
SplitSizeBits_whole(bits) == bits

\* size_bits argument of the retype call made by split
SplitSizeBits(bits) == bits - 1

split(h, v) ==
    /\ h.type = "Untyped" /\ h.role = "Local" /\ v.role = "CSpaceRoot"
    /\ IF v.free < 1 \/ h.bits < 1
       THEN Reject("split", h, v, 0)
       ELSE LET cs == consume_slot(v)
                dest_cnode == cs[1]
                dest_slot == cs[2]
                call == RetypeCall(h.cptr, "Untyped", SplitSizeBits(h.bits),
                                   dest_slot.cptr, dest_slot.offset, 1)
                err == KernelRetypeStatus(call)
            IN  /\ kcalls' = <<Logged(call, err)>>
                /\ IF err # 0
                   THEN /\ res' = Err("split", h, v, "UntypedRetype", err)
                        /\ handles' = MovedIn(handles, h)
                        /\ views' = MovedIn(views, v)
                        /\ halves' = halves \ {h.cptr}
                        /\ UNCHANGED <<kcaps, kwm>>
                   ELSE LET a == Capability(h.cptr, "Untyped", h.bits - 1)
                            b == Capability(dest_slot.offset, "Untyped", h.bits - 1)
                        IN  /\ res' = Ok("split", h, v, <<a, b>>, <<dest_cnode>>)
                            /\ handles' = (handles (-) B(h)) (+) B(a) (+) B(b)
                            /\ views' = (views (-) B(v)) (+) B(dest_cnode)
                            /\ halves' = halves \cup {a.cptr, b.cptr}
                            /\ kcaps' = KernelRetypeCaps(call)
                            /\ kwm' = KernelRetypeWm(call)

Split ==
    /\ Step
    /\ \E h \in BagToSet(handles), v \in BagToSet(views) : split(h, v)
    /\ CapFrame

\* the four handles quarter returns, the second slot used twice
QuarterCaps_dup(cptr, s1, s2, s3, bits) ==
    << Capability(cptr, "Untyped", bits), Capability(s1.offset, "Untyped", bits),
       Capability(s1.offset, "Untyped", bits), Capability(s3.offset, "Untyped", bits) >>

\* the four handles quarter returns
QuarterCaps(cptr, s1, s2, s3, bits) ==
    << Capability(cptr, "Untyped", bits), Capability(s1.offset, "Untyped", bits),
       Capability(s2.offset, "Untyped", bits), Capability(s3.offset, "Untyped", bits) >>

\* size_bits argument of the retype call made by quarter
QuarterSizeBits(bits) == bits - 2

\* num_objects argument of the retype call made by quarter
QuarterNumObjects == 3

quarter(h, v) ==
    /\ h.type = "Untyped" /\ h.role = "Local" /\ v.role = "CSpaceRoot"
    /\ IF v.free < 3 \/ h.bits < 2
       THEN Reject("quarter", h, v, 0)
       ELSE LET cs1 == consume_slot(v)
                cs2 == consume_slot(cs1[1])
                cs3 == consume_slot(cs2[1])
                dest_cnode == cs3[1]
                dest_slot1 == cs1[2]
                dest_slot2 == cs2[2]
                dest_slot3 == cs3[2]
                call == RetypeCall(h.cptr, "Untyped", QuarterSizeBits(h.bits),
                                   dest_slot1.cptr, dest_slot1.offset,
                                   QuarterNumObjects)
                err == KernelRetypeStatus(call)
            IN  /\ kcalls' = <<Logged(call, err)>>
                /\ halves' = halves \ {h.cptr}
                /\ IF err # 0
                   THEN /\ res' = Err("quarter", h, v, "UntypedRetype", err)
                        /\ handles' = MovedIn(handles, h)
                        /\ views' = MovedIn(views, v)
                        /\ UNCHANGED <<kcaps, kwm>>
                   ELSE LET q == QuarterCaps(h.cptr, dest_slot1, dest_slot2,
                                             dest_slot3, h.bits - 2)
                        IN  /\ res' = Ok("quarter", h, v, q, <<dest_cnode>>)
                            /\ handles' = (handles (-) B(h)) (+) SeqToBag(q)
                            /\ views' = (views (-) B(v)) (+) B(dest_cnode)
                            /\ kcaps' = KernelRetypeCaps(call)
                            /\ kwm' = KernelRetypeWm(call)

Quarter ==
    /\ Step
    /\ \E h \in BagToSet(handles), v \in BagToSet(views) : quarter(h, v)
    /\ CapFrame

\* the kernel call retype_local makes for target type t into slot s
RetypeLocalCall(h, t, s) == RetypeCall(h.cptr, t, 0, s.cptr, s.offset, 1)

retype_local(h, v, t) ==
    /\ h.type = "Untyped" /\ h.role = "Local" /\ v.role = "CSpaceRoot"
    /\ IF v.free < 1
       THEN Reject("retype_local", h, v, t)
       ELSE LET cs == consume_slot(v)
                dest_cnode == cs[1]
                dest_slot == cs[2]
                call == RetypeLocalCall(h, t, dest_slot)
                err == KernelRetypeStatus(call)
            IN  /\ kcalls' = <<Logged(call, err)>>
                /\ halves' = halves \ {h.cptr}
                /\ IF err # 0
                   THEN /\ res' = With(Err("retype_local", h, v, "UntypedRetype",
                                           err), t, h.cptr \in halves)
                        /\ handles' = MovedIn(handles, h)
                        /\ views' = MovedIn(views, v)
                        /\ UNCHANGED <<kcaps, kwm>>
                   ELSE LET a == Capability(dest_slot.offset, t, 0)
                        IN  /\ res' = With(Ok("retype_local", h, v, <<a>>,
                                              <<dest_cnode>>), t, h.cptr \in halves)
                            /\ handles' = (handles (-) B(h)) (+) B(a)
                            /\ views' = (views (-) B(v)) (+) B(dest_cnode)
                            /\ kcaps' = KernelRetypeCaps(call)
                            /\ kwm' = KernelRetypeWm(call)

RetypeLocal ==
    /\ Step
    /\ \E h \in BagToSet(handles), v \in BagToSet(views), t \in FixedSizeCap :
        retype_local(h, v, t)
    /\ CapFrame

\* a child table that names its parent table instead of its own slot
ChildCNode_parent(ChildRadix, dest_slot) ==
    CNode(ChildRadix, 0, dest_slot.cptr, Pow2(ChildRadix), "ChildProcess")

\* the CNode<Pow<ChildRadix>, ChildProcess> that retype_local_cnode returns
ChildCNode(ChildRadix, dest_slot) ==
    CNode(ChildRadix, 0, dest_slot.offset, Pow2(ChildRadix), "ChildProcess")

retype_local_cnode(h, v, ChildRadix) ==
    /\ h.type = "Untyped" /\ h.role = "Local" /\ v.role = "CSpaceRoot"
    /\ IF v.free < 1
       THEN Reject("retype_local_cnode", h, v, ChildRadix)
       ELSE LET cs == consume_slot(v)
                dest_cnode == cs[1]
                dest_slot == cs[2]
                call == RetypeCall(h.cptr, "CNode", ChildRadix,
                                   dest_slot.cptr, dest_slot.offset, 1)
                err == KernelRetypeStatus(call)
            IN  /\ kcalls' = <<Logged(call, err)>>
                /\ halves' = halves \ {h.cptr}
                /\ IF err # 0
                   THEN /\ res' = With(Err("retype_local_cnode", h, v,
                                           "UntypedRetype", err),
                                        ChildRadix, FALSE)
                        /\ handles' = MovedIn(handles, h)
                        /\ views' = MovedIn(views, v)
                        /\ UNCHANGED <<kcaps, kwm>>
                   ELSE LET child == ChildCNode(ChildRadix, dest_slot)
                        IN  /\ res' = With(Ok("retype_local_cnode", h, v, <<>>,
                                              <<child, dest_cnode>>),
                                           ChildRadix, FALSE)
                            /\ handles' = handles (-) B(h)
                            /\ views' = (views (-) B(v)) (+) B(child)
                                            (+) B(dest_cnode)
                            /\ kcaps' = KernelRetypeCaps(call)
                            /\ kwm' = KernelRetypeWm(call)

RetypeLocalCNode ==
    /\ Step
    /\ \E h \in BagToSet(handles), v \in BagToSet(views), r \in 1 .. MaxChildRadix :
        /\ BagCardinality(views) < MaxViews
        /\ retype_local_cnode(h, v, r)
    /\ CapFrame

retype_child(h, v, t) ==
    /\ h.type = "Untyped" /\ h.role = "Local" /\ v.role = "ChildProcess"
    /\ IF v.free < 1
       THEN Reject("retype_child", h, v, t)
       ELSE LET cs == consume_slot(v)
                dest_cnode == cs[1]
                dest_slot == cs[2]
                call == RetypeCall(h.cptr, t, 0, dest_slot.cptr,
                                   dest_slot.offset, 1)
                err == KernelRetypeStatus(call)
            IN  /\ kcalls' = <<Logged(call, err)>>
                /\ halves' = halves \ {h.cptr}
                /\ IF err # 0
                   THEN /\ res' = With(Err("retype_child", h, v,
                                           "UntypedRetype", err), t, FALSE)
                        /\ handles' = MovedIn(handles, h)
                        /\ views' = MovedIn(views, v)
                        /\ UNCHANGED <<kcaps, kwm>>
                   ELSE LET a == ChildCapability(dest_slot.offset, t)
                        IN  /\ res' = With(Ok("retype_child", h, v, <<a>>,
                                              <<dest_cnode>>), t, FALSE)
                            /\ handles' = (handles (-) B(h)) (+) B(a)
                            /\ views' = (views (-) B(v)) (+) B(dest_cnode)
                            /\ kcaps' = KernelRetypeCaps(call)
                            /\ kwm' = KernelRetypeWm(call)

RetypeChild ==
    /\ Step
    /\ \E h \in BagToSet(handles), v \in BagToSet(views), t \in FixedSizeCap :
        retype_child(h, v, t)
    /\ CapFrame

\* the rights a caller passes to copy_local
CapRights == {"R", "RW"}

\* the source handle is moved into the call
CopySource_moved(bag, h) == bag (-) B(h)

\* copy_local takes &self: the source handle stays with the caller
CopySource(bag, h) == bag

copy_local(h, v, rights) ==
    /\ h.role = "Local" /\ v.role = "CSpaceRoot"
    /\ IF v.free < 1
       THEN Reject("copy_local", h, v, rights)
       ELSE LET cs == consume_slot(v)
                dest_cnode == cs[1]
                dest_slot == cs[2]
                call == CopyCall(dest_slot.cptr, dest_slot.offset,
                                 RootCNodeCptr, h.cptr, rights)
                err == KernelCopyStatus(call)
            IN  /\ kcalls' = <<Logged(call, err)>>
                /\ halves' = halves \ {h.cptr}
                /\ IF err # 0
                   THEN /\ res' = With(Err("copy_local", h, v, "CNodeCopy", err),
                                        rights, FALSE)
                        /\ views' = MovedIn(views, v)
                        /\ UNCHANGED <<handles, kcaps, kwm>>
                   ELSE LET a == Capability(dest_slot.offset, h.type, h.bits)
                        IN  /\ res' = With(Ok("copy_local", h, v, <<a>>,
                                              <<dest_cnode>>), rights, FALSE)
                            /\ handles' = CopySource(handles, h) (+) B(a)
                            /\ views' = (views (-) B(v)) (+) B(dest_cnode)
                            /\ kcaps' = KernelCopyCaps(call)
                            /\ kwm' = KernelCopyWm(call)

CopyLocal ==
    /\ Step
    /\ \E h \in BagToSet(handles), v \in BagToSet(views), r \in CapRights :
        copy_local(h, v, r)
    /\ CapFrame

\* a remainder that keeps the whole capacity
RemainderFree_whole(v, Count) == v.free

\* capacity of the remainder view: Diff<FreeSlots, Count>
RemainderFree(v, Count) == v.free - Count

\* a remainder that starts where the reserved view starts
ReserveRemainderStart_same(v, Count) == v.next_free_slot

\* next_free_slot of the remainder view returned by reserve_region
ReserveRemainderStart(v, Count) == v.next_free_slot + Count

reserve_region(v, Count) ==
    IF Count > v.free
    THEN Reject("reserve_region", NoHandle, v, Count)
    ELSE LET a == CNode(v.radix, v.next_free_slot, v.cptr, Count, v.role)
             b == CNode(v.radix, ReserveRemainderStart(v, Count), v.cptr,
                        RemainderFree(v, Count), v.role)
         IN  /\ res' = With(Ok("reserve_region", NoHandle, v, <<>>, <<a, b>>),
                         Count, FALSE)
             /\ views' = (views (-) B(v)) (+) B(a) (+) B(b)
             /\ kcalls' = <<>>
             /\ UNCHANGED <<handles, kcaps, kwm, halves>>

ReserveRegion ==
    /\ Step
    /\ \E v \in BagToSet(views) : \E Count \in 0 .. v.free + 1 :
        /\ BagCardinality(views) < MaxViews
        /\ reserve_region(v, Count)
    /\ CapFrame

reservation_iter(v, Count) ==
    IF Count > v.free
    THEN Reject("reservation_iter", NoHandle, v, Count)
    ELSE LET unit(slot) == CNode(v.radix, slot, v.cptr, 1, v.role)
             units == [i \in 1 .. Count |-> unit(v.next_free_slot + i - 1)]
             b == CNode(v.radix, v.next_free_slot + Count, v.cptr,
                        RemainderFree(v, Count), v.role)
         IN  /\ res' = With(Ok("reservation_iter", NoHandle, v, <<>>,
                            units \o <<b>>), Count, FALSE)
             /\ views' = (views (-) B(v)) (+) SeqToBag(units) (+) B(b)
             /\ kcalls' = <<>>
             /\ UNCHANGED <<handles, kcaps, kwm, halves>>

ReservationIter ==
    /\ Step
    /\ \E v \in BagToSet(views) : \E Count \in 0 .. v.free + 1 :
        /\ BagCardinality(views) + Count <= MaxViews
        /\ reservation_iter(v, Count)
    /\ CapFrame

-----------------------------------------------------------------------------
(* Channel setup (userland/ipc.rs) *)

\* Cap::wrap_cptr(notification.cptr), and WakerSetup { notification }
WakerHandles(notification) ==
    << Capability(notification.cptr, notification.type, notification.bits),
       notification >>

\* the calls made by call_channel_with_waker, in order, with the kernel's
\* answers, up to the first one refused: the endpoint is retyped into the
\* first local slot, copied into the responder's slot, and the notification is
\* retyped into the second local slot
ChannelCalls(untyped, notification_ut, v) ==
    LET s == v.next_free_slot
        c1 == RetypeCall(untyped.cptr, "Endpoint", 0, v.cptr, s, 1)
        c2 == CopyCall(v.cptr, s + 2, RootCNodeCptr, s, "RW")
        c3 == RetypeCall(notification_ut.cptr, "Notification", 0, v.cptr,
                         s + 1, 1)
        e1 == KernelRetypeStatus(c1)
        e2 == IF HasCap(v.cptr, s + 2) THEN seL4_DeleteFirst ELSE seL4_NoError
        e3 == KernelRetypeStatus(c3)
    IN  IF e1 # 0 THEN << Logged(c1, e1) >>
        ELSE IF e2 # 0 THEN << Logged(c1, e1), Logged(c2, e2) >>
        ELSE << Logged(c1, e1), Logged(c2, e2), Logged(c3, e3) >>

\* the kernel after the accepted calls of a channel setup
ChannelKernelCaps(calls) ==
    kcaps \cup
    { [table |-> calls[i].c.root, slot |-> calls[i].c.offset,
       type |-> calls[i].c.type, bits |-> 0,
       obj |-> <<calls[i].c.root, calls[i].c.offset>>] :
        i \in { j \in 1 .. Len(calls) :
                  calls[j].ret = 0 /\ calls[j].c.call = "seL4_Untyped_Retype" } }
    \cup
    { [table |-> calls[i].c.service, slot |-> calls[i].c.index,
       type |-> "Endpoint", bits |-> 0,
       obj |-> <<calls[i].c.service, calls[1].c.offset>>] :
        i \in { j \in 1 .. Len(calls) :
                  calls[j].ret = 0 /\ calls[j].c.call = "seL4_CNode_Copy" } }

ChannelKernelWm(calls) ==
    LET ok == { j \in 1 .. Len(calls) :
                  calls[j].ret = 0 /\ calls[j].c.call = "seL4_Untyped_Retype" }
    IN  [o \in DOMAIN kwm |->
            IF \E j \in ok : o = <<RootCNodeCptr, calls[j].c.service>>
            THEN LET j == CHOOSE x \in ok :
                              o = <<RootCNodeCptr, calls[x].c.service>>
                 IN  KernelRetypeWm(calls[j].c)[o]
            ELSE kwm[o]]

\* call_channel_with_waker: both untyped handles and the three slots are
\* moved into the call
call_channel_with_waker(untyped, notification_ut, v) ==
    /\ untyped.type = "Untyped" /\ untyped.role = "Local"
    /\ notification_ut.type = "Untyped" /\ notification_ut.role = "Local"
    /\ untyped.cptr # notification_ut.cptr
    /\ v.role = "CSpaceRoot"
    /\ IF \/ v.free < 3
          \/ untyped.bits # ObjBits("Endpoint")
          \/ notification_ut.bits # ObjBits("Notification")
       THEN Reject("call_channel_with_waker", untyped, v, notification_ut.cptr)
       ELSE \E calls \in { ChannelCalls(untyped, notification_ut, v) } :
            LET s == v.next_free_slot
                last == calls[Len(calls)]
                local_endpoint == Capability(s, "Endpoint", 0)
                responder_endpoint == Capability(s + 2, "Endpoint", 0)
                notification == Capability(s + 1, "Notification", 0)
                rest == CNode(v.radix, s + 3, v.cptr, v.free - 3, v.role)
                out == << local_endpoint, responder_endpoint >>
                           \o WakerHandles(notification)
            IN  /\ kcalls' = calls
                /\ halves' = halves \ {untyped.cptr, notification_ut.cptr}
                /\ kcaps' = ChannelKernelCaps(calls)
                /\ kwm' = ChannelKernelWm(calls)
                /\ views' = (views (-) B(v)) (+) B(rest)
                /\ IF last.ret # 0
                   THEN /\ res' = With(Err("call_channel_with_waker", untyped, v,
                                           IF last.c.call = "seL4_CNode_Copy"
                                           THEN "CNodeCopy" ELSE "UntypedRetype",
                                           last.ret),
                                       notification_ut.cptr, FALSE)
                        /\ handles' = (handles (-) B(untyped))
                                          (-) B(notification_ut)
                   ELSE /\ res' = With(Ok("call_channel_with_waker", untyped, v,
                                          out, <<rest>>),
                                       notification_ut.cptr, FALSE)
                        /\ handles' = ((handles (-) B(untyped))
                                          (-) B(notification_ut)) (+) SeqToBag(out)

CallChannelWithWaker ==
    /\ Step
    /\ \E untyped \in BagToSet(handles), notification_ut \in BagToSet(handles),
          v \in BagToSet(views) :
        call_channel_with_waker(untyped, notification_ut, v)
    /\ CapFrame

CapNext ==
    \/ Split
    \/ Quarter
    \/ RetypeLocal
    \/ RetypeLocalCNode
    \/ RetypeChild
    \/ CopyLocal
    \/ ReserveRegion
    \/ ReservationIter
    \/ CallChannelWithWaker

-----------------------------------------------------------------------------
(* The VSpace and its paging chain (vspace.rs) *)

\* address bits resolved by one translation level of the model
IndexBits == 1
\* largest number of granules the VSpace's untyped supply starts with
MaxUt == 3
\* largest number of slots the VSpace starts with
MaxVsSlots == 3
\* largest number of pages already mapped in a bootstrapped VSpace
MaxBootPages == 2
\* largest page count given to skip_pages
MaxSkip == 2
\* largest position of a kernel call the kernel refuses for outside reasons
MaxFaultAt == 5
\* largest number of VSpace calls in one run
MaxPOps == 2
\* width of usize in the model
UsizeBits == 20

PageBits == 12
PageBytes == Pow2(PageBits)
UsizeMax == Pow2(UsizeBits) - 1

\* first slot of the WCNodeSlots handed to VSpace::new
VsSlotsOffset == 100
\* cptr of the first page handed to map_given_page
PageCptrBase == 200

\* the chain of each architecture is built with the other one's nodes
Depth_swapped(a) == IF a = "arm" THEN 4 ELSE 2

\* number of paging layers of AddressSpace, the root included:
\* arm     PagingRec<Page, PageTable, PagingTop>
\* aarch64 PagingRec<Page, PageTable, PagingRec<PageTable, PageDirectory,
\*             PagingRec<PageDirectory, PageUpperDirectory, PagingTop>>>
Depth(a) == IF a = "arm" THEN 2 ELSE 4

\* bytes covered by one granule mapped by node i (node 0 maps pages)
Span(i) == PageBytes * Pow2(IndexBits * i)
Base(i, addr) == addr - (addr % Span(i))

\* MappingError, and Ok(())
MOk == [tag |-> "Ok", e |-> 0]
Overflow == [tag |-> "Overflow", e |-> 0]
AddrNotPageAligned == [tag |-> "AddrNotPageAligned", e |-> 0]
PageMapFailure(e) == [tag |-> "PageMapFailure", e |-> e]
IntermediateLayerFailure(e) == [tag |-> "IntermediateLayerFailure", e |-> e]
RetypingError == [tag |-> "RetypingError", e |-> 0]

\* the kernel's answer to mapping the granule of node i at addr: the structure
\* that holds the entry must exist, and the entry must be empty
KernelMapStatus(i, addr, k, depth) ==
    IF addr >= Span(depth) THEN seL4_InvalidArgument
    ELSE IF i < depth - 1 /\ <<i + 1, Base(i + 1, addr)>> \notin k
         THEN seL4_FailedLookup
    ELSE IF <<i, Base(i, addr)>> \in k THEN seL4_DeleteFirst
    ELSE seL4_NoError

\* statuses with which the kernel may refuse a call for reasons the model does
\* not track (rights, ASID, a revoked capability, a racing unmap)
FaultCodes == {seL4_InvalidCapability, seL4_FailedLookup}
NoFault == [at |-> 0, code |-> 0]
Faults == {NoFault} \cup [at : 1 .. MaxFaultAt, code : FaultCodes]

\* the status of the n-th kernel call of a VSpace call
KernelAnswer(n, f, natural) == IF f.at = n THEN f.code ELSE natural

Event(ev, node, item, addr, rights, site, r) ==
    [ev |-> ev, node |-> node, item |-> item, addr |-> addr,
     rights |-> rights, site |-> site, res |-> r]

\* Maps<G>::map_item of the layer of node i: a lookup failure of the kernel
\* becomes Overflow, any other failure is wrapped
LayerResult(i, ret) ==
    IF ret = seL4_NoError THEN MOk
    ELSE IF ret = seL4_FailedLookup THEN Overflow
    ELSE IF i = 0 THEN PageMapFailure(ret)
    ELSE IntermediateLayerFailure(ret)

LayerMap(i, item, addr, rights, site, st, f, depth) ==
    IF i = 0 /\ addr % PageBytes # 0
    THEN [st |-> [st EXCEPT !.tr = Append(@, Event("map", i, item, addr, rights,
                                                  site, AddrNotPageAligned))],
          r |-> AddrNotPageAligned]
    ELSE LET ret == KernelAnswer(st.n + 1, f,
                                 KernelMapStatus(i, addr, st.k, depth))
             r == LayerResult(i, ret)
         IN  [st |-> [st EXCEPT
                        !.n = @ + 1,
                        !.k = IF ret = seL4_NoError
                              THEN @ \cup {<<i, Base(i, addr)>>} ELSE @,
                        !.pg = IF ret = seL4_NoError /\ i = 0
                               THEN @ \cup {<<item, addr>>} ELSE @,
                        !.tr = Append(@, Event("map", i, item, addr, rights,
                                               site, r))],
              r |-> r]

\* a retype whose failure the caller does not see
WUntypedRetype_unchecked(i, addr, rights, st, f) ==
    IF st.slots.size = 0
    THEN [st |-> [st EXCEPT !.tr = Append(@, Event("retype", i, 0, addr, rights,
                                                  "alloc", RetypingError))],
          ok |-> TRUE, cptr |-> 0]
    ELSE LET ret == KernelAnswer(st.n + 1, f,
                                 IF st.ut = 0 THEN seL4_NotEnoughMemory
                                 ELSE seL4_NoError)
             cptr == st.slots.offset
             r == IF ret = seL4_NoError THEN MOk ELSE RetypingError
         IN  [st |-> [st EXCEPT
                        !.n = @ + 1,
                        !.slots = [offset |-> @.offset + 1, size |-> @.size - 1],
                        !.ut = IF ret = seL4_NoError THEN @ - 1 ELSE @,
                        !.tr = Append(@, Event("retype", i,
                                               IF ret = seL4_NoError THEN cptr ELSE 0,
                                               addr, rights, "retype", r))],
              ok |-> TRUE, cptr |-> cptr]

\* WUntyped::retype::<P::Item>: takes one slot, then asks the kernel for one
\* granule of node i out of the untyped supply
WUntypedRetype(i, addr, rights, st, f) ==
    IF st.slots.size = 0
    THEN [st |-> [st EXCEPT !.tr = Append(@, Event("retype", i, 0, addr, rights,
                                                  "alloc", RetypingError))],
          ok |-> FALSE, cptr |-> 0]
    ELSE LET ret == KernelAnswer(st.n + 1, f,
                                 IF st.ut = 0 THEN seL4_NotEnoughMemory
                                 ELSE seL4_NoError)
             cptr == st.slots.offset
             r == IF ret = seL4_NoError THEN MOk ELSE RetypingError
         IN  [st |-> [st EXCEPT
                        !.n = @ + 1,
                        !.slots = [offset |-> @.offset + 1, size |-> @.size - 1],
                        !.ut = IF ret = seL4_NoError THEN @ - 1 ELSE @,
                        !.tr = Append(@, Event("retype", i,
                                               IF ret = seL4_NoError THEN cptr ELSE 0,
                                               addr, rights, "retype", r))],
              ok |-> ret = seL4_NoError, cptr |-> cptr]

\* every failure of the layer rolls up
IsOverflow_any(r) == r # MOk

\* the arm Err(MappingError::Overflow) of PagingRec::map_item
IsOverflow(r) == r = Overflow

\* the retry does not look at what the outer layer answered
OuterOk_always(r) == TRUE

\* the `?` on the outer layer's map_item in PagingRec::map_item
OuterOk(r) == r = MOk

\* a second absent-entry answer starts another build and retry
RetryAgain_onOverflow(r) == r = Overflow

\* the answer to the second attempt is the node's answer, whatever it is
RetryAgain(r) == FALSE

\* the value of an expression over the result of one call, the call being
\* made once: Only({ rest(v) : v \in { call } }) is `let v = call; rest(v)`
Only(S) == CHOOSE x \in S : TRUE

\* PagingTop::map_item (node depth - 1) and PagingRec::map_item (the others)
RECURSIVE map_item(_, _, _, _, _, _, _)
map_item(i, item, addr, rights, st, f, depth) ==
    IF i = depth - 1
    THEN LayerMap(i, item, addr, rights, "top", st, f, depth)
    ELSE Only({
           IF IsOverflow(first.r)
           THEN Only({
                  IF ~next_item.ok
                  THEN [st |-> next_item.st, r |-> RetypingError]
                  ELSE Only({
                         IF ~OuterOk(outer.r) THEN outer
                         ELSE Only({
                                IF RetryAgain(second.r)
                                THEN map_item(i, item, addr, rights, second.st,
                                              f, depth)
                                ELSE second
                              : second \in { LayerMap(i, item, addr, rights,
                                                      "retry", outer.st, f,
                                                      depth) } })
                       : outer \in { map_item(i + 1, next_item.cptr, addr,
                                              rights, next_item.st, f, depth) } })
                : next_item \in { WUntypedRetype(i + 1, addr, rights,
                                                 first.st, f) } })
           ELSE first
         : first \in { LayerMap(i, item, addr, rights, "first", st, f, depth) } })

\* largest SizeBits of a memory region (a region has 2^(SizeBits - PageBits) pages)
MaxRegionBits == 13

\* NumPages<SizeBits>
NumPages(SizeBits) == Pow2(SizeBits - PageBits)
RegionBits == PageBits .. MaxRegionBits

\* the slot of the first page capability of the n-th call's region, and the
\* slots given to the n-th call for copies
FreshCptr(n) == PageCptrBase + 4 * NumPages(MaxRegionBits) * n
FreshSlots(n) == FreshCptr(n) + 2 * NumPages(MaxRegionBits)

\* address-space identifiers the kernel may assign
Asids == {1, 2}

\* Result<LocalCap<Page<Mapped>>, VSpaceError> of map_given_page
MapGivenPageResult(r, page, vaddr, id) ==
    IF r = MOk
    THEN [tag |-> "Ok", cptr |-> page, vaddr |-> vaddr, asid |-> id,
          e |-> 0, m |-> "Ok"]
    ELSE IF r.tag \in {"PageMapFailure", "IntermediateLayerFailure"}
    THEN [tag |-> "SeL4Error", cptr |-> 0, vaddr |-> 0, asid |-> 0,
          e |-> r.e, m |-> r.tag]
    ELSE [tag |-> "MappingError", cptr |-> 0, vaddr |-> 0, asid |-> 0,
          e |-> 0, m |-> r.tag]

\* UnmappedMemoryRegion<SizeBits, SS> and MappedMemoryRegion<SizeBits, SS>
UnmappedMemoryRegion(start_cptr, SizeBits, SS) ==
    [state |-> "Unmapped", start_cptr |-> start_cptr, bits |-> SizeBits,
     ss |-> SS, vaddr |-> 0, asid |-> 0]
MappedMemoryRegion(start_cptr, SizeBits, SS, vaddr, id) ==
    [state |-> "Mapped", start_cptr |-> start_cptr, bits |-> SizeBits,
     ss |-> SS, vaddr |-> vaddr, asid |-> id]
NoRegion ==
    [state |-> "None", start_cptr |-> 0, bits |-> PageBits, ss |-> "None",
     vaddr |-> 0, asid |-> 0]

\* what a VSpace call returned: the chain's last answer, the Result, the
\* argument of the call and the region handed back
RResult(op, layers, ret, arg, count, out) ==
    [op |-> op, layers |-> layers, ret |-> ret, arg |-> arg, count |-> count,
     out |-> out]

PResult(op, layers, ret) == RResult(op, layers, ret, NoRegion, 0, NoRegion)

NoRet == [tag |-> "none", cptr |-> 0, vaddr |-> 0, asid |-> 0, e |-> 0,
          m |-> "none"]
OkRet == [NoRet EXCEPT !.tag = "Ok", !.m = "Ok"]
SeL4Error(kind, e) == [NoRet EXCEPT !.tag = "SeL4Error", !.e = e, !.m = kind]

NoPResult == PResult("none", MOk, NoRet)

\* one more VSpace call
PStep == pnops < MaxPOps /\ pnops' = pnops + 1

\* what every VSpace call leaves alone
PagingFrame == UNCHANGED <<arch, asid, capvars, avars, rvars>>

\* the granules of the pages 0 .. b-1 and of the structures that hold them
BootMapped(b, depth) ==
    { <<i, Base(i, p * PageBytes)>> : i \in 0 .. depth - 1, p \in 0 .. b - 1 }

\* VSpace::new
VSpaceNew ==
    /\ next_addr = 0
    /\ pk = {}
    /\ vs_untyped \in 0 .. MaxUt
    /\ \E size \in 0 .. MaxVsSlots :
          vs_slots = [offset |-> VsSlotsOffset, size |-> size]

\* VSpace::bootstrap, wrapping an address space the kernel has populated
bootstrap ==
    /\ \E b \in 0 .. MaxBootPages : pk = BootMapped(b, Depth(arch))
    /\ \E j \in 0 .. MaxBootPages : next_addr = j * PageBytes
    /\ vs_untyped = 0
    /\ vs_slots = [offset |-> 0, size |-> 0]

PagingInit ==
    /\ arch \in {"arm", "aarch64"}
    /\ asid \in Asids
    /\ (VSpaceNew \/ bootstrap)
    /\ kpages = {}
    /\ regions = {}
    /\ handed = {}
    /\ ptrace = <<>>
    /\ pres = NoPResult
    /\ pnops = 0

\* the VSpace before it exists
PagingIdle ==
    /\ arch = "arm"
    /\ asid = 0
    /\ next_addr = 0
    /\ pk = {}
    /\ kpages = {}
    /\ regions = {}
    /\ handed = {}
    /\ vs_untyped = 0
    /\ vs_slots = [offset |-> 0, size |-> 0]
    /\ ptrace = <<>>
    /\ pres = NoPResult
    /\ pnops = 0

\* the capability algebra before root_cnode and wrap_untyped are called
CapIdle ==
    /\ handles = EmptyBag
    /\ views = EmptyBag
    /\ kcaps = {}
    /\ kwm = <<>>
    /\ kcalls = <<>>
    /\ res = Rejected("none", NoHandle, NoView)
    /\ halves = {}
    /\ nops = 0
    /\ spent = {}
    /\ dead = {}

\* the VSpace and the kernel's view of it, as threaded through one call
Entry ==
    [k |-> pk, pg |-> kpages, ut |-> vs_untyped, slots |-> vs_slots,
     tr |-> <<>>, n |-> 0, next_addr |-> next_addr]

\* the addresses at which the calls of trace tr mapped a page
MappedAt(tr) ==
    { tr[j].addr : j \in { m \in 1 .. Len(tr) :
                            /\ tr[m].ev = "map" /\ tr[m].node = 0
                            /\ tr[m].res = MOk } }

\* the VSpace and the kernel after a call that ended in vs
Leave(vs) ==
    /\ pk' = vs.k
    /\ kpages' = vs.pg
    /\ vs_untyped' = vs.ut
    /\ vs_slots' = vs.slots
    /\ ptrace' = vs.tr
    /\ next_addr' = vs.next_addr
    /\ handed' = handed \cup MappedAt(vs.tr)

\* the cursor moves on by a whole page
CursorStep_page == PageBytes

\* self.next_addr += PageBits::USIZE
CursorStep == PageBits

\* usize addition as `+=` does it: the sum is kept within the width of usize
CursorAdvance(addr) == (addr + CursorStep) % (UsizeMax + 1)

\* map_given_page moving the cursor on whether or not the page was mapped
map_given_page_advancing(vs, page, rights, f, depth, id) ==
    Only({ [vs |-> [out.st EXCEPT !.next_addr = CursorAdvance(@)],
            layers |-> out.r,
            ret |-> MapGivenPageResult(out.r, page, vs.next_addr, id)]
         : out \in { map_item(0, page, vs.next_addr, rights, vs, f, depth) } })

\* VSpace::map_given_page
map_given_page(vs, page, rights, f, depth, id) ==
    Only({ [vs |-> IF out.r = MOk
                   THEN [out.st EXCEPT !.next_addr = CursorAdvance(@)]
                   ELSE out.st,
            layers |-> out.r,
            ret |-> MapGivenPageResult(out.r, page, vs.next_addr, id)]
         : out \in { map_item(0, page, vs.next_addr, rights, vs, f, depth) } })

MapGivenPage ==
    /\ PStep
    /\ \E rights \in CapRights, f \in Faults :
        \E out \in { map_given_page(Entry, FreshCptr(pnops), rights, f,
                                      Depth(arch), asid) } :
            /\ Leave(out.vs)
            /\ pres' = PResult("map_given_page", out.layers, out.ret)
    /\ UNCHANGED regions
    /\ PagingFrame

\* the cursor moves on by PageBits for each page
skip_pages_next_bits(addr, count) ==
    IF count > UsizeMax \div PageBits THEN -1
    ELSE IF addr + PageBits * count > UsizeMax THEN -1
    ELSE addr + PageBits * count

\* the product and the sum are taken without a check and wrap around
skip_pages_next_wrapping(addr, count) ==
    (addr + PageBytes * (count % ((UsizeMax + 1) \div PageBytes)))
        % (UsizeMax + 1)

\* PageBytes.checked_mul(count).and_then(|bytes| next_addr.checked_add(bytes))
skip_pages_next(addr, count) ==
    IF count > UsizeMax \div PageBytes THEN -1
    ELSE IF addr + PageBytes * count > UsizeMax THEN -1
    ELSE addr + PageBytes * count

\* VSpace::skip_pages
SkipPages ==
    /\ PStep
    /\ \E count \in (0 .. MaxSkip) \cup {UsizeMax \div PageBytes, UsizeMax} :
        LET next == skip_pages_next(next_addr, count)
        IN  /\ next_addr' = IF next >= 0 THEN next ELSE next_addr
            /\ pres' = RResult("skip_pages", MOk,
                         IF next >= 0 THEN OkRet
                         ELSE [NoRet EXCEPT !.tag = "ExceededAvailableAddressSpace"],
                         NoRegion, count, NoRegion)
    /\ ptrace' = <<>>
    /\ UNCHANGED <<pk, kpages, vs_untyped, vs_slots, regions, handed>>
    /\ PagingFrame

Exclusive == "Exclusive"
Shared == "Shared"

\* the regions a caller can hand to a call: one it has just built, or one
\* that unmap_region handed back
UnmappedInputs(SS) ==
    { UnmappedMemoryRegion(FreshCptr(pnops), b, SS) : b \in RegionBits }
        \cup { r \in regions : r.state = "Unmapped" /\ r.ss = SS }

\* the for loop of map_region_internal, from page idx on
RECURSIVE MapPages(_, _, _, _, _, _, _)
MapPages(vs, region, idx, rights, f, depth, id) ==
    IF idx = NumPages(region.bits)
    THEN [vs |-> vs, layers |-> MOk, ret |-> OkRet]
    ELSE Only({ IF one.ret.tag # "Ok" THEN one
                ELSE MapPages(one.vs, region, idx + 1, rights, f, depth, id)
              : one \in { map_given_page(vs, region.start_cptr + idx, rights,
                                         f, depth, id) } })

\* map_region_internal reading the region's address after the loop
map_region_internal_late(vs, region, rights, f, depth, id, SSOut) ==
    Only({ [vs |-> loop.vs, layers |-> loop.layers, ret |-> loop.ret,
            out |-> IF loop.ret.tag = "Ok"
                    THEN MappedMemoryRegion(region.start_cptr, region.bits,
                                            SSOut, loop.vs.next_addr, id)
                    ELSE NoRegion]
         : loop \in { MapPages(vs, region, 0, rights, f, depth, id) } })

\* VSpace::map_region_internal
map_region_internal(vs, region, rights, f, depth, id, SSOut) ==
    LET vaddr == vs.next_addr
        mapped_region == MappedMemoryRegion(region.start_cptr, region.bits,
                                            SSOut, vaddr, id)
    IN  Only({ [vs |-> loop.vs, layers |-> loop.layers, ret |-> loop.ret,
                out |-> IF loop.ret.tag = "Ok" THEN mapped_region ELSE NoRegion]
             : loop \in { MapPages(vs, region, 0, rights, f, depth, id) } })

\* VSpace::map_region
MapRegion ==
    /\ PStep
    /\ \E region \in UnmappedInputs(Exclusive), rights \in CapRights,
          f \in Faults :
        \E out \in { map_region_internal(Entry, region, rights, f,
                                           Depth(arch), asid, Exclusive) } :
            /\ Leave(out.vs)
            /\ pres' = RResult("map_region", out.layers, out.ret, region,
                               NumPages(region.bits), out.out)
            /\ regions' = (regions \ {region}) \cup
                            (IF out.ret.tag = "Ok" THEN {out.out} ELSE {})
    /\ PagingFrame

\* VSpace::map_shared_region_and_consume
MapSharedRegionAndConsume ==
    /\ PStep
    /\ \E region \in UnmappedInputs(Shared), rights \in CapRights,
          f \in Faults :
        \E out \in { map_region_internal(Entry, region, rights, f,
                                           Depth(arch), asid, Shared) } :
            /\ Leave(out.vs)
            /\ pres' = RResult("map_shared_region_and_consume", out.layers,
                               out.ret, region, NumPages(region.bits), out.out)
            /\ regions' = (regions \ {region}) \cup
                            (IF out.ret.tag = "Ok" THEN {out.out} ELSE {})
    /\ PagingFrame

\* CapRange::copy: one copy-capability call per page of the range, into the
\* slots given
RECURSIVE CapRangeCopy(_, _, _, _, _, _)
CapRangeCopy(vs, region, slots, idx, rights, f) ==
    IF idx = NumPages(region.bits) THEN [vs |-> vs, e |-> seL4_NoError]
    ELSE LET ret == KernelAnswer(vs.n + 1, f, seL4_NoError)
             r == IF ret = seL4_NoError THEN MOk
                  ELSE [tag |-> "CNodeCopy", e |-> ret]
             after == [vs EXCEPT
                         !.n = @ + 1,
                         !.tr = Append(@, Event("copy", 0, slots + idx,
                                                region.start_cptr + idx,
                                                rights, "copy", r))]
         IN  IF ret # seL4_NoError THEN [vs |-> after, e |-> ret]
             ELSE CapRangeCopy(after, region, slots, idx + 1, rights, f)

\* the region's own capabilities are mapped, the copies are left aside
SharedMapSource_original(region, unmapped_sr) == region

\* self.map_region_internal(unmapped_sr, rights): the copies are mapped
SharedMapSource(region, unmapped_sr) == unmapped_sr

\* VSpace::map_shared_region: the region is borrowed and stays with the caller
MapSharedRegion ==
    /\ PStep
    /\ \E region \in UnmappedInputs(Shared), rights \in CapRights,
          f \in Faults :
        LET slots == FreshSlots(pnops)
            unmapped_sr == UnmappedMemoryRegion(slots, region.bits, Shared)
        IN  \E copy \in { CapRangeCopy(Entry, region, slots, 0, rights, f) } :
            IF copy.e # seL4_NoError
            THEN /\ Leave(copy.vs)
                 /\ pres' = RResult("map_shared_region", MOk,
                                    SeL4Error("CNodeCopy", copy.e), region,
                                    NumPages(region.bits), NoRegion)
                 /\ regions' = regions \cup {region}
            ELSE \E out \in { map_region_internal(
                                 copy.vs, SharedMapSource(region, unmapped_sr),
                                 rights, f, Depth(arch), asid, Shared) } :
                 /\ Leave(out.vs)
                 /\ pres' = RResult("map_shared_region", out.layers, out.ret,
                                    region, NumPages(region.bits), out.out)
                 /\ regions' = regions \cup {region} \cup
                                 (IF out.ret.tag = "Ok" THEN {out.out} ELSE {})
    /\ PagingFrame

\* seL4_ARM_Page_Unmap: the kernel forgets where the page was mapped
KernelUnmap(vs, cptr) ==
    [vs EXCEPT
       !.k = @ \ { <<0, Base(0, p[2])>> : p \in { q \in vs.pg : q[1] = cptr } },
       !.pg = { q \in @ : q[1] # cptr }]

\* SeL4Error::PageUnmap(e)
PageUnmap(e) == [tag |-> "PageUnmap", e |-> e]

\* VSpace::unmap_page
unmap_page(vs, page, f) ==
    LET ret == KernelAnswer(vs.n + 1, f, seL4_NoError)
        r == IF ret = seL4_NoError THEN MOk ELSE PageUnmap(ret)
        called == [vs EXCEPT
                     !.n = @ + 1,
                     !.tr = Append(@, Event("unmap", 0, page.cptr, page.vaddr,
                                            "none", "unmap", r))]
    IN  [vs |-> IF ret = seL4_NoError THEN KernelUnmap(called, page.cptr)
                ELSE called,
         e |-> ret]

\* MappedPageRange::iter: the idx-th page of a mapped region
MappedPage(region, idx) ==
    [cptr |-> region.start_cptr + idx,
     vaddr |-> region.vaddr + PageBytes * idx,
     asid |-> region.asid]

\* the for loop of unmap_region, from page idx on
RECURSIVE UnmapPages(_, _, _, _)
UnmapPages(vs, region, idx, f) ==
    IF idx = NumPages(region.bits) THEN [vs |-> vs, e |-> seL4_NoError]
    ELSE Only({ IF one.e # seL4_NoError THEN one
                ELSE UnmapPages(one.vs, region, idx + 1, f)
              : one \in { unmap_page(vs, MappedPage(region, idx), f) } })

\* the status tag of the region unmap_region hands back is lost
UnmapStatus_exclusive(SS) == Exclusive

\* UnmappedMemoryRegion<SizeBits, SS> out of MappedMemoryRegion<SizeBits, SS>
UnmapStatus(SS) == SS

\* unmapping gives the region's address back to the cursor
UnmapCursor_rewind(cursor, region) == region.vaddr

\* unmap_region does not touch next_addr
UnmapCursor(cursor, region) == cursor

\* VSpace::unmap_region
unmap_region(vs, region, f) ==
    LET start_cptr == region.start_cptr
    IN  Only({ [vs |-> [loop.vs EXCEPT !.next_addr = UnmapCursor(@, region)],
                layers |-> MOk,
                ret |-> IF loop.e = seL4_NoError THEN OkRet
                        ELSE SeL4Error("PageUnmap", loop.e),
                out |-> IF loop.e = seL4_NoError
                        THEN UnmappedMemoryRegion(start_cptr, region.bits,
                                                  UnmapStatus(region.ss))
                        ELSE NoRegion]
             : loop \in { UnmapPages(vs, region, 0, f) } })

UnmapRegion ==
    /\ PStep
    /\ \E region \in { r \in regions : r.state = "Mapped" }, f \in Faults :
        \E out \in { unmap_region(Entry, region, f) } :
            /\ Leave(out.vs)
            /\ pres' = RResult("unmap_region", out.layers, out.ret, region,
                               NumPages(region.bits), out.out)
            /\ regions' = (regions \ {region}) \cup
                            (IF out.ret.tag = "Ok" THEN {out.out} ELSE {})
    /\ PagingFrame

\* the caller's function is called whatever the mapping returned
FnCalled_always(ret) == TRUE

\* the `?` on self.map_region: f is reached only when the mapping succeeded
FnCalled(ret) == ret.tag = "Ok"

\* let res = f(&mut mapped_region)
CallF(vs, region) ==
    [vs EXCEPT !.tr = Append(@, Event("call", 0, region.start_cptr,
                                      region.vaddr, "RW", "f", MOk))]

\* VSpace::temporarily_map_region: the region is borrowed, mapped read-write
\* for the caller's function, and unmapped again
TemporarilyMapRegion ==
    /\ PStep
    /\ \E region \in UnmappedInputs(Exclusive), f \in Faults :
        \E mapped \in { map_region_internal(
                            Entry,
                            UnmappedMemoryRegion(region.start_cptr, region.bits,
                                                 Exclusive),
                            "RW", f, Depth(arch), asid, Exclusive) } :
          \E called \in { IF FnCalled(mapped.ret)
                          THEN CallF(mapped.vs, mapped.out) ELSE mapped.vs } :
            IF mapped.ret.tag # "Ok"
            THEN /\ Leave(called)
                 /\ pres' = RResult("temporarily_map_region", mapped.layers,
                                    mapped.ret, region, NumPages(region.bits),
                                    NoRegion)
            ELSE \E unmapped \in { unmap_region(called, mapped.out, f) } :
                 /\ Leave(unmapped.vs)
                 /\ pres' = RResult("temporarily_map_region", mapped.layers,
                                    unmapped.ret, region,
                                    NumPages(region.bits), NoRegion)
    /\ \E region \in {pres'.arg} : regions' = regions \cup {region}
    /\ PagingFrame

\* largest number of pages of the user image
MaxImagePages == 2

\* ProcessCodeImageConfig
CodeImageConfigs == {"ReadOnly", "ReadWritable"}

\* asid.assign(&mut root_cap) of VSpace<Empty>::new
AssignAsid(vs, f) ==
    LET ret == KernelAnswer(vs.n + 1, f, seL4_NoError)
    IN  [vs |-> [vs EXCEPT
                   !.n = @ + 1,
                   !.tr = Append(@, Event("assign", 0, 0, 0, "none", "assign",
                                          IF ret = seL4_NoError THEN MOk
                                          ELSE [tag |-> "ASIDPoolAssign",
                                                e |-> ret]))],
         e |-> ret]

\* the loop over the pages of the user image, from page idx on: each page
\* capability is copied read-only into a code slot and the copy is mapped
RECURSIVE ImagePages(_, _, _, _, _, _, _)
ImagePages(vs, idx, pages, code_slots, f, depth, id) ==
    IF idx = pages THEN [vs |-> vs, layers |-> MOk, ret |-> OkRet]
    ELSE LET ret == KernelAnswer(vs.n + 1, f, seL4_NoError)
             after == [vs EXCEPT
                         !.n = @ + 1,
                         !.tr = Append(@, Event("copy", 0, code_slots + idx, idx,
                                                "R", "copy",
                                                IF ret = seL4_NoError THEN MOk
                                                ELSE [tag |-> "CNodeCopy",
                                                      e |-> ret]))]
         IN  IF ret # seL4_NoError
             THEN [vs |-> after, layers |-> MOk,
                   ret |-> SeL4Error("CNodeCopy", ret)]
             ELSE Only({ IF one.ret.tag # "Ok" THEN one
                         ELSE ImagePages(one.vs, idx + 1, pages, code_slots, f,
                                         depth, id)
                       : one \in { map_given_page(after, code_slots + idx, "R",
                                                  f, depth, id) } })

\* what the match on code_image_config of VSpace<Imaged>::new comes to
ImageMapped(config, vs, pages, code_slots, f, depth, id) ==
    IF config = "ReadOnly"
    THEN ImagePages(vs, 0, pages, code_slots, f, depth, id)
    ELSE [vs |-> vs, layers |-> MOk, ret |-> [NoRet EXCEPT !.tag = "panic"]]

\* a split that hands out slots it does not have
SplitOk_any(slots, count) == TRUE

\* slots.split(count) of the runtime-checked slot range: refused when the
\* range holds fewer than count slots
SplitOk(slots, count) == slots.size >= count

\* VSpace<Imaged>::new: the slots are split, the empty VSpace is made and the
\* code image is mapped into it; a VSpace that was not made takes no call
ImagedNew ==
    /\ pnops = 0
    /\ vs_slots.offset = VsSlotsOffset
    /\ \E config \in CodeImageConfigs, pages \in 0 .. MaxImagePages,
          f \in Faults :
        IF ~SplitOk(vs_slots, pages)
        THEN /\ pres' = RResult("new", MOk,
                                [NoRet EXCEPT !.tag = "InsufficientCNodeSlots"],
                                NoRegion, pages, NoRegion)
             /\ ptrace' = <<>>
             /\ UNCHANGED <<next_addr, pk, kpages, vs_untyped, vs_slots, handed>>
        ELSE \E made \in { AssignAsid(
                               [Entry EXCEPT
                                  !.slots = [offset |-> @.offset + pages,
                                             size |-> @.size - pages]], f) } :
             \E out \in { IF made.e # seL4_NoError
                           THEN [vs |-> made.vs, layers |-> MOk,
                                 ret |-> SeL4Error("ASIDPoolAssign", made.e)]
                           ELSE ImageMapped(config, made.vs, pages,
                                            vs_slots.offset, f, Depth(arch),
                                            asid) } :
                /\ Leave(out.vs)
                /\ pres' = RResult("new", out.layers, out.ret, NoRegion, pages,
                                   NoRegion)
    /\ pnops' = IF pres'.ret.tag = "Ok" THEN 1 ELSE MaxPOps
    /\ UNCHANGED regions
    /\ PagingFrame

\* UnmappedMemoryRegion::to_shared
to_shared(region) ==
    UnmappedMemoryRegion(region.start_cptr, region.bits, Shared)

ToShared ==
    /\ PStep
    /\ \E region \in UnmappedInputs(Exclusive) :
        \E out \in { to_shared(region) } :
            /\ regions' = (regions \ {region}) \cup {out}
            /\ pres' = RResult("to_shared", MOk, OkRet, region,
                               NumPages(region.bits), out)
    /\ ptrace' = <<>>
    /\ UNCHANGED <<next_addr, pk, kpages, vs_untyped, vs_slots, handed>>
    /\ PagingFrame

PagingNext ==
    \/ MapGivenPage
    \/ SkipPages
    \/ MapRegion
    \/ MapSharedRegion
    \/ MapSharedRegionAndConsume
    \/ UnmapRegion
    \/ TemporarilyMapRegion
    \/ ToShared
    \/ ImagedNew

-----------------------------------------------------------------------------
(* The boot-time allocator (micro_alloc.rs) *)

\* largest number of untyped items in the boot information
MaxItems == 3
\* the sizes of the boot items and of the requests go up to
\* MIN_UNTYPED_SIZE_BITS + MaxExtraBits
MaxExtraBits == 2
\* largest number of Allocator calls in one run
MaxAllocOps == 2

MAX_UNTYPED_SIZE_BITS == 32

AllocBits == MIN_UNTYPED_SIZE_BITS .. MIN_UNTYPED_SIZE_BITS + MaxExtraBits

\* struct UntypedItem, with the fields of its seL4_UntypedDesc
UntypedItem(cptr, sizeBits, isDevice, paddr) ==
    [cptr |-> cptr, sizeBits |-> sizeBits, isDevice |-> isDevice,
     paddr |-> paddr, is_free |-> TRUE]

\* Option<Cap<Untyped<BitSize>, role::Local>>
NoneUntyped == [tag |-> "None", cptr |-> 0, bits |-> 0]
SomeUntyped(cptr, BitSize) == [tag |-> "Some", cptr |-> cptr, bits |-> BitSize]

\* wrap_untyped::<BitSize>(cptr, untyped_desc)
wrap_untyped_desc(cptr, sizeBits, BitSize) ==
    IF sizeBits = BitSize THEN SomeUntyped(cptr, BitSize) ELSE NoneUntyped

\* paddr: None
NoPaddr == [some |-> FALSE, a |-> 0]
SomePaddr(a) == [some |-> TRUE, a |-> a]

\* the condition of the if in the loops of find_block
Matches(its, bit_size, device_byte, paddr) ==
    { i \in 1 .. Len(its) :
        /\ its[i].is_free
        /\ its[i].isDevice = device_byte
        /\ its[i].sizeBits = bit_size
        /\ (paddr.some => its[i].paddr = paddr.a) }

SetMin(S) == CHOOSE x \in S : \A y \in S : x <= y

\* find_block leaving the item it hands out marked free
find_block_unmarked(its, BitSize, device_ok, paddr) ==
    LET device_byte == IF device_ok THEN 1 ELSE 0
        sizes == { b \in BitSize .. MAX_UNTYPED_SIZE_BITS :
                     Matches(its, b, device_byte, paddr) # {} }
    IN  IF sizes = {} THEN [items |-> its, u |-> NoneUntyped]
        ELSE LET bit_size == SetMin(sizes)
                 i == SetMin(Matches(its, bit_size, device_byte, paddr))
             IN  [items |-> its,
                  u |-> wrap_untyped_desc(its[i].cptr, its[i].sizeBits, BitSize)]

\* Allocator::find_block: the first item, sizes ascending from BitSize and
\* items in order within a size, that passes the condition is wrapped and,
\* if the wrapping gave a capability, marked used; the search ends there
find_block(its, BitSize, device_ok, paddr) ==
    LET device_byte == IF device_ok THEN 1 ELSE 0
        sizes == { b \in BitSize .. MAX_UNTYPED_SIZE_BITS :
                     Matches(its, b, device_byte, paddr) # {} }
    IN  IF sizes = {} THEN [items |-> its, u |-> NoneUntyped]
        ELSE LET bit_size == SetMin(sizes)
                 i == SetMin(Matches(its, bit_size, device_byte, paddr))
                 u == wrap_untyped_desc(its[i].cptr, its[i].sizeBits, BitSize)
             IN  [items |-> IF u.tag = "Some"
                            THEN [its EXCEPT ![i].is_free = FALSE] ELSE its,
                  u |-> u]

AResult(op, BitSize, paddr, u) ==
    [op |-> op, BitSize |-> BitSize, paddr |-> paddr, u |-> u]

\* one more call of the Allocator that bootstrap returned
AStep ==
    /\ booted = "Ok"
    /\ anops < MaxAllocOps /\ anops' = anops + 1
    /\ UNCHANGED <<bootinfo, booted>>

AllocFrame == UNCHANGED <<capvars, pvars, rvars>>

\* Allocator::get_untyped
GetUntyped ==
    /\ AStep
    /\ \E BitSize \in AllocBits :
        \E out \in { find_block(items, BitSize, FALSE, NoPaddr) } :
            /\ items' = out.items
            /\ ares' = AResult("get_untyped", BitSize, NoPaddr, out.u)
    /\ AllocFrame

\* Allocator::get_device_untyped
GetDeviceUntyped ==
    /\ AStep
    /\ \E BitSize \in AllocBits, paddr \in 1 .. MaxItems :
        \E out \in { find_block(items, BitSize, TRUE, SomePaddr(paddr)) } :
            /\ items' = out.items
            /\ ares' = AResult("get_device_untyped", BitSize, SomePaddr(paddr),
                               out.u)
    /\ AllocFrame

\* sizeBits of the descriptors of the boot information: the sizes the
\* requests ask for, and one on either side of the limits
DescBits == AllocBits \cup {MIN_UNTYPED_SIZE_BITS - 1, MAX_UNTYPED_SIZE_BITS + 1}

\* bootinfo.untyped.start
BootStarts == {0, BootUntypedCptr}

\* the boot information the kernel may hand over: the untyped capabilities
\* sit in consecutive slots from untyped.start on, and descriptor i says
\* what the i-th is (each at a physical address of its own)
BootInfos ==
    { [start |-> st,
       untypedList |-> [i \in DOMAIN l |->
                          [sizeBits |-> l[i].sizeBits,
                           isDevice |-> l[i].isDevice, paddr |-> i]]] :
        st \in BootStarts,
        l \in UNION { [1 .. n -> [sizeBits : DescBits, isDevice : {0, 1}]]
                       : n \in 0 .. MaxItems } }

\* UntypedItem::new without the check of the size
UntypedItem_new_anySize(cptr, desc) ==
    IF cptr = 0 THEN [tag |-> "InvalidBootInfoCapability"]
    ELSE [tag |-> "Ok",
          item |-> UntypedItem(cptr, desc.sizeBits, desc.isDevice, desc.paddr)]

\* UntypedItem::new
UntypedItem_new(cptr, desc) ==
    IF cptr = 0 THEN [tag |-> "InvalidBootInfoCapability"]
    ELSE IF \/ desc.sizeBits < MIN_UNTYPED_SIZE_BITS
            \/ desc.sizeBits > MAX_UNTYPED_SIZE_BITS
    THEN [tag |-> "UntypedSizeOutOfRange"]
    ELSE [tag |-> "Ok",
          item |-> UntypedItem(cptr, desc.sizeBits, desc.isDevice, desc.paddr)]

\* the for loop of Allocator::bootstrap from descriptor i on (i counts from
\* 1 here, from 0 in the program): the first Err is returned at once
RECURSIVE BootstrapItems(_, _, _)
BootstrapItems(bi, i, its) ==
    IF i > Len(bi.untypedList) THEN [tag |-> "Ok", items |-> its]
    ELSE LET new == UntypedItem_new(bi.start + i - 1, bi.untypedList[i])
         IN  IF new.tag # "Ok" THEN [tag |-> new.tag, items |-> <<>>]
             ELSE BootstrapItems(bi, i + 1, Append(its, new.item))

\* Allocator::bootstrap
AllocatorBootstrap ==
    /\ booted = "no"
    /\ \E out \in { BootstrapItems(bootinfo, 1, <<>>) } :
          /\ booted' = out.tag
          /\ items' = out.items
    /\ UNCHANGED <<bootinfo, ares, anops>>
    /\ AllocFrame

AllocNext ==
    \/ AllocatorBootstrap
    \/ GetUntyped
    \/ GetDeviceUntyped

\* the boot information as the kernel hands it over, no Allocator made yet
AllocatorInit ==
    /\ bootinfo \in BootInfos
    /\ booted = "no"
    /\ items = <<>>
    /\ ares = AResult("none", 0, NoPaddr, NoneUntyped)
    /\ anops = 0

\* the Allocator where bootstrap is never called
AllocIdle ==
    /\ bootinfo = [start |-> 0, untypedList |-> <<>>]
    /\ booted = "no"
    /\ items = <<>>
    /\ ares = AResult("none", 0, NoPaddr, NoneUntyped)
    /\ anops = 0

-----------------------------------------------------------------------------
(* The responder loop (userland/ipc.rs) *)

\* largest number of messages the endpoint delivers in one run
MaxMsgs == 3
\* largest badge of a notification
MaxBadge == 2
\* turns of the loop without new data that are counted
MaxSpins == 2
\* type_length_in_words::<Req>() of the request type the model runs with
ReqWords == 2

\* what the kernel may deliver to the endpoint: a regular message (badge 0)
\* of any length, or the badge of a notification
Deliveries ==
    { [sender_badge |-> 0, length_words |-> n] : n \in 0 .. ReqWords + 1 }
        \cup { [sender_badge |-> b, length_words |-> 0] : b \in 1 .. MaxBadge }

REvent(ev, badge, len) == [ev |-> ev, badge |-> badge, len |-> len]

\* a loop that takes every regular message for a request
LengthMismatch_never(len) == FALSE

\* msg_info.length_words() != request_length_in_words
LengthMismatch(len) == len # ReqWords

RespFrame == UNCHANGED <<capvars, pvars, avars>>

\* seL4_Recv, and the receive phase of seL4_ReplyRecv: the responder waits
\* until the kernel delivers something; a regular message leaves its sender
\* blocked until it is replied to
RecvMessage ==
    /\ rpc = "recv"
    /\ Cardinality({ j \in 1 .. Len(rlog) : rlog[j].ev = "recv" }) < MaxMsgs
    /\ \E m \in Deliveries :
          /\ sender_badge' = m.sender_badge
          /\ msg_len' = m.length_words
          /\ awaiting' = (m.sender_badge = 0)
          /\ rlog' = Append(rlog, REvent("recv", m.sender_badge, m.length_words))
    /\ rpc' = "loop"
    /\ UNCHANGED spins
    /\ RespFrame

\* a regular message of the wrong length: `continue`, back to the top of the
\* loop with the same sender_badge and msg_info
DropAndSpin ==
    /\ rpc = "loop"
    /\ sender_badge = 0
    /\ LengthMismatch(msg_len)
    /\ spins' = IF spins < MaxSpins THEN spins + 1 ELSE spins
    /\ UNCHANGED <<rpc, sender_badge, msg_len, rlog, awaiting>>
    /\ RespFrame

\* a regular message of the expected length: f is called on the request and
\* the response is sent with seL4_ReplyRecv, which then waits
HandleRequest ==
    /\ rpc = "loop"
    /\ sender_badge = 0
    /\ ~LengthMismatch(msg_len)
    /\ rlog' = rlog \o << REvent("f", sender_badge, msg_len),
                          REvent("reply", sender_badge, msg_len) >>
    /\ awaiting' = FALSE
    /\ rpc' = "recv"
    /\ UNCHANGED <<sender_badge, msg_len, spins>>
    /\ RespFrame

\* a notification: g is called on its badge, then seL4_Recv
HandleNotification ==
    /\ rpc = "loop"
    /\ sender_badge # 0
    /\ rlog' = Append(rlog, REvent("g", sender_badge, msg_len))
    /\ rpc' = "recv"
    /\ UNCHANGED <<sender_badge, msg_len, awaiting, spins>>
    /\ RespFrame

ResponderNext ==
    \/ RecvMessage
    \/ DropAndSpin
    \/ HandleRequest
    \/ HandleNotification

\* reply_recv_with_notification is entered: sender_badge = 0 and the first
\* seL4_Recv is about to be made
ResponderStart ==
    /\ rpc = "recv"
    /\ sender_badge = 0
    /\ msg_len = 0
    /\ rlog = <<>>
    /\ awaiting = FALSE
    /\ spins = 0

\* no Responder
ResponderIdle ==
    /\ rpc = "none"
    /\ sender_badge = 0
    /\ msg_len = 0
    /\ rlog = <<>>
    /\ awaiting = FALSE
    /\ spins = 0

-----------------------------------------------------------------------------
(* Specifications *)

\* the capability algebra, with no VSpace call made
Init == CapInit /\ PagingIdle /\ AllocIdle /\ ResponderIdle

Spec == Init /\ [][CapNext]_vars

\* the VSpace, with no call of the capability algebra made
VSpaceInit == PagingInit /\ CapIdle /\ AllocIdle /\ ResponderIdle

PagingSpec == VSpaceInit /\ [][PagingNext]_vars

\* the boot-time allocator, with no other call made
AllocInit == AllocatorInit /\ CapIdle /\ PagingIdle /\ ResponderIdle

AllocSpec == AllocInit /\ [][AllocNext]_vars

\* the responder loop, with no other call made
ResponderInit == ResponderStart /\ CapIdle /\ PagingIdle /\ AllocIdle

ResponderSpec == ResponderInit /\ [][ResponderNext]_vars

-----------------------------------------------------------------------------
(* Properties of the capability algebra *)

UntypedOps == {"split", "quarter", "retype_local", "retype_local_cnode",
               "retype_child"}

\* C1: a successful split of an Untyped of size N with a view of F free slots
\* whose next free slot is s issues exactly one retype call (one Untyped of
\* size N-1 at slot s) and returns two Untyped handles of size N-1, one at the
\* source's slot index and one at s, with a view of capacity F-1 starting at s+1.
C1_SplitContract ==
    (res.op = "split" /\ res.status = "ok") =>
        LET N == res.src.bits
            F == res.view.free
            s == res.view.next_free_slot
        IN  /\ kcalls = << Logged(RetypeCall(res.src.cptr, "Untyped", N - 1,
                                             res.view.cptr, s, 1), 0) >>
            /\ res.handles = << Capability(res.src.cptr, "Untyped", N - 1),
                                Capability(s, "Untyped", N - 1) >>
            /\ res.views = << CNode(res.view.radix, s + 1, res.view.cptr, F - 1,
                                    res.view.role) >>
            /\ \A i \in 1 .. 2 : BagIn(res.handles[i], handles)
            /\ BagIn(res.views[1], views)

C1_Witness ==
    /\ res.op = "split" /\ res.status = "ok"
    /\ res.src.bits = 13 /\ res.view.free = MaxRootSlots

\* C2: a successful quarter of an Untyped of size N with a view of F free slots
\* whose next free slot is s takes slots s, s+1, s+2, issues exactly one retype
\* call (three Untypeds of size N-2 from slot s) and returns four Untyped
\* handles of size N-2 at pairwise distinct slot indices (the source's, s, s+1,
\* s+2) with a view of capacity F-3.
C2_QuarterContract ==
    (res.op = "quarter" /\ res.status = "ok") =>
        LET N == res.src.bits
            F == res.view.free
            s == res.view.next_free_slot
        IN  /\ kcalls = << Logged(RetypeCall(res.src.cptr, "Untyped", N - 2,
                                             res.view.cptr, s, 3), 0) >>
            /\ res.handles = << Capability(res.src.cptr, "Untyped", N - 2),
                                Capability(s, "Untyped", N - 2),
                                Capability(s + 1, "Untyped", N - 2),
                                Capability(s + 2, "Untyped", N - 2) >>
            /\ Cardinality({ res.handles[i].cptr : i \in 1 .. 4 }) = 4
            /\ res.views = << CNode(res.view.radix, s + 3, res.view.cptr, F - 3,
                                    res.view.role) >>
            /\ \A i \in 1 .. 4 : BagIn(res.handles[i], handles)
            /\ BagIn(res.views[1], views)
            /\ \A i \in 0 .. 2 : HasCap(res.view.cptr, s + i)

C2_Witness ==
    /\ res.op = "quarter" /\ res.status = "ok"
    /\ res.src.bits = 12 /\ res.view.free > 3

\* C3: for every Count <= FreeSlots, reserve_region(Count) on a view of
\* capacity FreeSlots with next free slot s returns a view of capacity Count
\* over [s, s+Count) and a remainder of capacity FreeSlots-Count starting at
\* s+Count; the two share no slot and no kernel call is issued.
C3_ReserveRegion ==
    (res.op = "reserve_region" /\ res.arg <= res.view.free) =>
        LET Count == res.arg
            s == res.view.next_free_slot
        IN  /\ res.status = "ok"
            /\ Len(res.views) = 2
            /\ res.views[1].free = Count /\ res.views[1].next_free_slot = s
            /\ res.views[2].free = res.view.free - Count
            /\ res.views[2].next_free_slot = s + Count
            /\ res.views[1].cptr = res.view.cptr
            /\ res.views[2].cptr = res.view.cptr
            /\ ViewSlots(res.views[1]) = { <<res.view.cptr, i>> : i \in s .. s + Count - 1 }
            /\ ViewSlots(res.views[1]) \cap ViewSlots(res.views[2]) = {}
            /\ kcalls = <<>>
            /\ BagIn(res.views[1], views) /\ BagIn(res.views[2], views)

C3_Witness ==
    /\ res.op = "reserve_region" /\ res.status = "ok"
    /\ res.arg >= 2 /\ res.arg < res.view.free

RECURSIVE SumFree(_, _)
SumFree(bag, S) ==
    IF S = {} THEN 0
    ELSE LET v == CHOOSE x \in S : TRUE
         IN  v.free * CopiesIn(v, bag) + SumFree(bag, S \ {v})

\* total free-slot capacity of the live views of table t
TotalFree(bag, t) == SumFree(bag, { v \in BagToSet(bag) : v.cptr = t })

\* C4: over any sequence of the operations, the total free-slot capacity of
\* the live views of a capability table never increases, and a request for more
\* slots than a view has left is rejected without any kernel call.
C4_Step ==
    /\ \A c \in kcaps :
          (c.table = RootCNodeCptr /\ c.type = "CNode") =>
              TotalFree(views', c.slot) <= TotalFree(views, c.slot)
    /\ (SlotsNeeded(res') > res'.view.free) =>
          /\ res'.status = "rejected"
          /\ kcalls' = <<>>
          /\ UNCHANGED <<kcaps, kwm, views, handles>>

C4_FreeSlotsOnlyDecrease == [][C4_Step]_vars

C4_Witness ==
    /\ res.op = "quarter" /\ res.status = "rejected"
    /\ res.view.free \in 1 .. 2 /\ res.src.bits >= 2
    /\ TotalFree(views, RootCNodeCptr) < MaxRootSlots

\* C5: when the kernel returns a non-zero status to split, quarter,
\* retype_local, retype_local_cnode, retype_child or copy_local, the operation
\* returns an error carrying exactly that status, and no handle and no view.
C5_ErrorCarriesStatus ==
    (res.op \in UntypedOps \cup {"copy_local"} /\ kcalls # <<>>) =>
        /\ Len(kcalls) = 1
        /\ (kcalls[1].ret # 0) =>
              /\ res.status = IF res.op = "copy_local" THEN "CNodeCopy"
                              ELSE "UntypedRetype"
              /\ res.err = kcalls[1].ret
              /\ res.handles = <<>>
              /\ res.views = <<>>

C5_Witness ==
    /\ res.op = "retype_child" /\ kcalls # <<>>
    /\ kcalls[1].ret = seL4_NotEnoughMemory

\* C6: after a failed split, quarter or retype call, the source Untyped handle
\* and the slots taken for the call are consumed: they are not handed back, and
\* no later operation is given that handle or those slot indices again.
C6_FailureConsumes ==
    /\ (res.op \in UntypedOps /\ res.status = "UntypedRetype") =>
          /\ ~BagIn(res.src, handles)
          /\ res.src \in dead
          /\ SlotsTaken(res) \subseteq spent
    /\ \A h \in dead : ~BagIn(h, handles)
    /\ \A v \in BagToSet(views) : ViewSlots(v) \cap spent = {}

C6_Witness ==
    /\ res.op = "retype_local" /\ res.status = "ok"
    /\ dead # {} /\ spent # {}
    /\ res.view.cptr = RootCNodeCptr

\* C7: after split(Untyped<N>) succeeds, retyping either returned half into a
\* fixed-size object of size <= 2^(N-1) succeeds, in either order and for both
\* halves.
C7_HalvesRetype ==
    (/\ res.op = "retype_local" /\ res.half
     /\ res.status # "rejected"
     /\ ObjBits(res.arg) <= res.src.bits) => res.status = "ok"

C7_Witness ==
    /\ res.op = "retype_local" /\ res.half /\ res.status = "ok"
    /\ res.arg = "Page" /\ res.src.bits = 12
    /\ halves = {}
    /\ \E h \in BagToSet(handles) : h.type = "Page" /\ h # res.handles[1]

\* C8: retyping an Untyped<12> directly into a page succeeds, whereas retyping
\* a quarter of an Untyped<12> (an Untyped<10>) into an object that needs 4 KiB
\* is rejected by a size check before any kernel retype call is issued.
C8_SizeCheckedBeforeKernel ==
    /\ (/\ res.op = "retype_local" /\ res.arg = "Page"
        /\ res.src = wrap_untyped(BootUntypedCptr, 12)
        /\ res.view.free >= 1 /\ nops = 1) => res.status = "ok"
    /\ (/\ res.op = "retype_local" /\ res.arg = "Page"
        /\ res.src.bits = 10) =>
            /\ res.status = "rejected"
            /\ kcalls = <<>>

-----------------------------------------------------------------------------
(* Properties of the paging chain *)

\* the last position of the map_item call on the chain that position j
\* belongs to: the call ends before the next page is handed to the chain
CallEnd(j) ==
    LET later == { m \in j + 1 .. Len(ptrace) :
                     \/ ptrace[m].ev \notin {"map", "retype"}
                     \/ ptrace[m].node = 0 /\ ptrace[m].site = "first" }
    IN  IF later = {} THEN Len(ptrace)
        ELSE (CHOOSE m \in later : \A x \in later : m <= x) - 1

\* positions after j, in the same map_item call on the chain, at which node n
\* is asked to map
MapsAt(n, j) ==
    { m \in j + 1 .. CallEnd(j) : ptrace[m].ev = "map" /\ ptrace[m].node = n }

SetMax(S) == CHOOSE x \in S : \A y \in S : y <= x

\* C9: when the layer of a recursive node answers Overflow to the first
\* attempt, the node next retypes one unit of the untyped supply into the
\* granule of the next-outer layer, then asks the outer node to map that new
\* granule at the same address, then maps the original item again at its own
\* layer; the retry is made exactly when the retype and the outer map both
\* succeeded, and nothing is retried twice.
C9_OverflowRollsUp ==
    \A j \in 1 .. Len(ptrace) :
        LET e == ptrace[j]
        IN  (e.ev = "map" /\ e.site = "first" /\ e.res = Overflow) =>
              /\ j < Len(ptrace)
              /\ LET rt == ptrace[j + 1]
                     outers == MapsAt(e.node + 1, j)
                     retries == { m \in MapsAt(e.node, j) : ptrace[m].site = "retry" }
                     bothOk == /\ rt.res = MOk
                               /\ outers # {}
                               /\ ptrace[SetMax(outers)].res = MOk
                 IN  /\ rt.ev = "retype" /\ rt.node = e.node + 1
                     /\ rt.addr = e.addr
                     /\ (rt.res # MOk) =>
                           /\ j + 1 = Len(ptrace)
                           /\ pres.layers = RetypingError
                     /\ (rt.res = MOk) =>
                           /\ j + 2 <= Len(ptrace)
                           /\ ptrace[j + 2].ev = "map"
                           /\ ptrace[j + 2].node = e.node + 1
                           /\ ptrace[j + 2].site \in {"first", "top"}
                           /\ ptrace[j + 2].item = rt.item
                           /\ ptrace[j + 2].addr = e.addr
                           /\ ptrace[j + 2].rights = e.rights
                     /\ MapsAt(e.node, j) = retries
                     /\ Cardinality(retries) <= 1
                     /\ (retries # {}) <=> bothOk
                     /\ \A m \in retries :
                           /\ m = SetMax(outers) + 1
                           /\ ptrace[m].item = e.item
                           /\ ptrace[m].addr = e.addr
                           /\ ptrace[m].rights = e.rights

\* a page mapped on aarch64 into an empty address space: three layers roll up
\* and three retries follow
C9_Witness ==
    /\ pres.op = "map_given_page" /\ pres.layers = MOk
    /\ arch = "aarch64" /\ Len(ptrace) = 10
    /\ Cardinality({ m \in 1 .. Len(ptrace) : ptrace[m].site = "retry" }) = 3

\* C10: when a layer's map attempt fails with an error other than Overflow, the
\* chain returns that very error at once: no retype, no call of an outer layer
\* and no retry follows it.
C10_OtherErrorsReturnAtOnce ==
    \A j \in 1 .. Len(ptrace) :
        LET e == ptrace[j]
        IN  (e.ev = "map" /\ e.res \notin {MOk, Overflow}) =>
              /\ j = Len(ptrace)
              /\ pres.layers = e.res

\* an outer layer refuses while two layers below it wait for their retry
C10_Witness ==
    /\ pres.op = "map_given_page"
    /\ pres.layers.tag = "IntermediateLayerFailure"
    /\ Len(ptrace) >= 5
    /\ vs_slots.size > 0 /\ vs_untyped > 0

MapOps == {"map_given_page", "map_region", "map_shared_region",
           "map_shared_region_and_consume", "temporarily_map_region"}

\* C11: within one map_item call a recursive node retries the original item
\* exactly once after building the missing outer structure: whatever the second
\* attempt answers (success, an error, or Overflow again) is the node's answer,
\* and the node builds nothing more and retries nothing more.
C11_OneRetry ==
    \A m \in 1 .. Len(ptrace) :
        LET e == ptrace[m]
        IN  (e.ev = "map" /\ e.site = "retry") =>
              \* nothing more at this node, and no further build by it
              /\ MapsAt(e.node, m) = {}
              /\ \A x \in m + 1 .. CallEnd(m) :
                    ~(ptrace[x].ev = "retype" /\ ptrace[x].node = e.node + 1)
              \* the second answer is handed to the caller as it is
              /\ (e.res # MOk) => (m = Len(ptrace) /\ pres.layers = e.res)
              /\ (e.res = MOk /\ e.node > 0) =>
                    /\ m < Len(ptrace)
                    /\ ptrace[m + 1].ev = "map"
                    /\ ptrace[m + 1].site = "retry"
                    /\ ptrace[m + 1].node = e.node - 1
              /\ (e.res = MOk /\ e.node = 0) => m = CallEnd(m)

\* the second attempt answers Overflow again and that is what the chain returns
C11_Witness ==
    /\ pres.op = "map_given_page"
    /\ pres.layers = Overflow
    /\ Len(ptrace) >= 4
    /\ ptrace[Len(ptrace)].site = "retry"
    /\ ptrace[Len(ptrace)].node = 0

KernelCalls(tr) ==
    { j \in 1 .. Len(tr) :
        \/ tr[j].ev = "retype" /\ tr[j].site = "retype"
        \/ tr[j].ev = "map" /\ tr[j].res # AddrNotPageAligned
        \/ tr[j].ev \in {"copy", "unmap"} }

LeafMapCalls(tr) == { j \in KernelCalls(tr) : tr[j].ev = "map" /\ tr[j].node = 0 }
RetypeCalls(tr) == { j \in KernelCalls(tr) : tr[j].ev = "retype" }
LayerMapCalls(tr) == { j \in KernelCalls(tr) : tr[j].ev = "map" /\ tr[j].node > 0 }

\* the structures above the pages of [addr, addr + K pages) that k lacks
MissingLayers(k, addr, K, depth) ==
    { <<i, Base(i, addr + p * PageBytes)>> :
        i \in 1 .. depth - 1, p \in 0 .. K - 1 } \ k

\* the calls that map the pages of a region and nothing else
RegionMapOps == {"map_region", "map_shared_region_and_consume"}

\* C13: mapping a region of K pages into a fresh address space issues exactly
\* K leaf (page) map calls plus M structure-creation calls, M being the number
\* of layers found missing the first time each is needed.
C13_Step ==
    (/\ pk = {} /\ kpages = {}
     /\ pres'.op \in RegionMapOps
     /\ pres'.ret.tag = "Ok") =>
        /\ Cardinality(LeafMapCalls(ptrace')) = pres'.count
        /\ Cardinality(RetypeCalls(ptrace')) =
              Cardinality(MissingLayers(pk, next_addr, pres'.count, Depth(arch)))

C13_ExactCallCount == [][C13_Step]_vars

\* the structures found missing by a trace: the absent-entry answers to first
\* attempts
FoundMissing(tr) ==
    { j \in 1 .. Len(tr) :
        tr[j].ev = "map" /\ tr[j].site = "first" /\ tr[j].res = Overflow }

C15_Step ==
    (/\ handed # {}
     /\ pres'.op \in RegionMapOps
     /\ MissingLayers(pk, next_addr, pres'.count, Depth(arch)) = {}
     /\ pres'.ret.tag # "SeL4Error") =>
        /\ pres'.ret.tag = "Ok"
        /\ Cardinality(KernelCalls(ptrace')) = pres'.count
        /\ RetypeCalls(ptrace') = {}
        /\ LayerMapCalls(ptrace') = {}
        /\ vs_untyped' = vs_untyped
        /\ vs_slots' = vs_slots

C15_PopulatedRangeCostsK == [][C15_Step]_vars

\* C16: map_region maps page i of the region at (cursor at call time) + i *
\* page size, in capability order, moving the cursor on by one page after each
\* page mapped; the region handed back has the cursor at call time as its
\* address, the VSpace's identifier and the page count of the input.
C16_Step ==
    (pres'.op = "map_region" /\ pres'.ret.tag = "Ok") =>
        LET K == pres'.count
            leaf == { j \in 1 .. Len(ptrace') :
                        /\ ptrace'[j].ev = "map" /\ ptrace'[j].node = 0
                        /\ ptrace'[j].res = MOk }
        IN  /\ Cardinality(leaf) = K
            /\ \A i \in 0 .. K - 1 : \E j \in leaf :
                  /\ ptrace'[j].item = pres'.arg.start_cptr + i
                  /\ ptrace'[j].addr = next_addr + i * PageBytes
                  /\ Cardinality({ x \in leaf : x < j }) = i
            /\ next_addr' = next_addr + K * PageBytes
            /\ pres'.out.vaddr = next_addr
            /\ pres'.out.asid = asid
            /\ pres'.out.bits = pres'.arg.bits
            /\ pres'.out.state = "Mapped"

C16_MapRegionSequential == [][C16_Step]_vars

\* C17: two consecutive single-page mappings into an empty address space give
\* virtual addresses one page size (4096 bytes) apart, with the same
\* address-space identifier: the second page is not refused for the address
\* the VSpace chose for it.
C17_Step ==
    \* the address kept for the second page is one page after the first
    /\ (/\ handed = {}
        /\ pres'.op = "map_given_page" /\ pres'.ret.tag = "Ok") =>
           next_addr' = pres'.ret.vaddr + PageBytes
    \* and the second page is mapped there, under the same identifier
    /\ (/\ pres.op = "map_given_page" /\ pres.ret.tag = "Ok"
        /\ handed = {pres.ret.vaddr}
        /\ pres'.op = "map_given_page"
        /\ pres'.ret.tag # "SeL4Error"
        /\ pres'.layers # RetypingError) =>
           /\ pres'.ret.tag = "Ok"
           /\ pres'.ret.vaddr = pres.ret.vaddr + PageBytes
           /\ pres'.ret.asid = pres.ret.asid

C17_ConsecutivePages == [][C17_Step]_vars

\* C18: for every region R and both status tags, unmap_region of the region
\* that map_region made of R issues, when it succeeds, one kernel unmap per
\* page in capability order and hands back an UnmappedMemoryRegion with R's
\* first slot, R's page count and R's status tag, every page being unmapped.
C18_Step ==
    /\ (pres'.op \in RegionMapOps /\ pres'.ret.tag = "Ok") =>
          /\ pres'.out.start_cptr = pres'.arg.start_cptr
          /\ pres'.out.bits = pres'.arg.bits
          /\ pres'.out.ss = pres'.arg.ss
    /\ (pres'.op = "unmap_region" /\ pres'.ret.tag = "Ok") =>
          LET R == pres'.arg
              K == NumPages(R.bits)
          IN  /\ R \in regions /\ R.state = "Mapped"
              /\ Len(ptrace') = K
              /\ \A i \in 1 .. K :
                    /\ ptrace'[i].ev = "unmap"
                    /\ ptrace'[i].item = R.start_cptr + i - 1
                    /\ ptrace'[i].res = MOk
              /\ pres'.out = UnmappedMemoryRegion(R.start_cptr, R.bits, R.ss)
              /\ pres'.out \in regions'
              /\ R \notin regions'
              /\ \A i \in 0 .. K - 1 : \A q \in kpages' : q[1] # R.start_cptr + i
              /\ \A i \in 0 .. K - 1 : <<R.start_cptr + i, R.vaddr + i * PageBytes>> \in kpages

C18_UnmapRoundTrip == [][C18_Step]_vars

\* a Shared region mapped, then unmapped
C18_Witness ==
    /\ pres.op = "unmap_region" /\ pres.ret.tag = "Ok"
    /\ pres.arg.ss = Shared
    /\ pres.out.state = "Unmapped" /\ pres.out.ss = Shared
    /\ kpages = {} /\ handed # {}

\* C19: the address cursor never decreases, whatever call is made and whether
\* it succeeds or fails, so no later mapping is given an address that an
\* earlier one was given, unmapped or not.
C19_Step ==
    /\ next_addr' >= next_addr
    /\ MappedAt(ptrace') \cap handed = {}

C19_CursorMonotonic == [][C19_Step]_vars

\* a region is mapped and unmapped and the cursor stays beyond it
C19_Witness ==
    /\ pres.op = "unmap_region" /\ pres.ret.tag = "Ok"
    /\ pres.arg.vaddr \in handed
    /\ next_addr > pres.arg.vaddr
    /\ \A q \in kpages : q[2] # pres.arg.vaddr

\* C20: skip_pages(n), when the result is representable, moves the cursor on by
\* exactly n * page size bytes, issues no kernel call, maps nothing and leaves
\* the root, the identifier, the chain and the untyped and slot supplies alone.
C20_Step ==
    (pres'.op = "skip_pages" /\ pres'.ret.tag = "Ok") =>
        /\ next_addr' = next_addr + pres'.count * PageBytes
        /\ ptrace' = <<>>
        /\ UNCHANGED <<pk, kpages, arch, asid, vs_untyped, vs_slots, regions>>

C20_SkipPages == [][C20_Step]_vars

C20_Witness ==
    /\ pres.op = "skip_pages" /\ pres.ret.tag = "Ok"
    /\ pres.count = 2
    /\ next_addr >= 2 * PageBytes

\* the addresses of the page at addr at which the kernel has a page mapped
MappedIn(pg, addr) == { q \in pg : q[2] >= addr /\ q[2] < addr + PageBytes }

\* C21: skip_pages(1); map_region(region of S pages); skip_pages(1) leaves the
\* S pages mapped at consecutive page addresses, with one unmapped page-sized
\* guard right below the first and one right above the last, and the cursor,
\* where the next mapping starts, not below the end of the upper guard.
C21_Step ==
    \* the guard skipped before the region, and the region's pages
    /\ (/\ pres.op = "skip_pages" /\ pres.ret.tag = "Ok" /\ pres.count = 1
        /\ pres'.op = "map_region" /\ pres'.ret.tag = "Ok") =>
           /\ MappedIn(kpages', next_addr - PageBytes) = {}
           /\ \A i \in 0 .. pres'.count - 1 :
                 <<pres'.arg.start_cptr + i, next_addr + i * PageBytes>> \in kpages'
    \* the guard skipped after the region
    /\ (/\ pres.op = "map_region" /\ pres.ret.tag = "Ok"
        /\ pres'.op = "skip_pages" /\ pres'.ret.tag = "Ok" /\ pres'.count = 1) =>
           LET top == pres.out.vaddr + pres.count * PageBytes
           IN  /\ MappedIn(kpages', top) = {}
               /\ next_addr' >= top + PageBytes

C21_GuardPages == [][C21_Step]_vars

\* the positions of a trace at which a capability is copied
Copies(tr) == { j \in 1 .. Len(tr) : tr[j].ev = "copy" }

\* C22: map_shared_region copies every page capability of the borrowed Shared
\* region into the slots it is given before it maps anything, and maps only
\* the copies; whatever the call returns, the region it borrowed is still with
\* the caller, Unmapped and Shared, over its original slots, none of which the
\* call has mapped, so that it can be handed to map_shared_region again.
C22_Step ==
    (pres'.op = "map_shared_region") =>
        LET R == pres'.arg
            K == NumPages(R.bits)
            tr == ptrace'
            others == (1 .. Len(tr)) \ Copies(tr)
            own == { R.start_cptr + i : i \in 0 .. K - 1 }
            dest == { tr[j].item : j \in Copies(tr) }
        IN  /\ R = UnmappedMemoryRegion(R.start_cptr, R.bits, Shared)
            /\ R \in regions'
            /\ \A q \in kpages' \ kpages : q[1] \notin own
            /\ \A j \in Copies(tr) :
                  /\ j <= K
                  /\ tr[j].addr = R.start_cptr + j - 1
                  /\ tr[j].item = FreshSlots(pnops) + j - 1
                  /\ tr[j].item \notin own
            /\ (others # {}) =>
                  /\ Copies(tr) = 1 .. K
                  /\ \A j \in Copies(tr) : tr[j].res = MOk
                  /\ \A m \in others : m > K
            /\ \A m \in others :
                  (tr[m].ev = "map" /\ tr[m].node = 0) => tr[m].item \in dest
            /\ (pres'.ret.tag = "Ok") =>
                  /\ pres'.out = MappedMemoryRegion(FreshSlots(pnops), R.bits,
                                                    Shared, next_addr, asid)
                  /\ pres'.out \in regions'

C22_SharedRegionIsCopied == [][C22_Step]_vars

\* a region that an earlier map_shared_region borrowed is mapped by a second
\* map_shared_region
C22_Witness ==
    /\ pnops = 2
    /\ pres.op = "map_shared_region" /\ pres.ret.tag = "Ok"
    /\ pres.arg.start_cptr = FreshCptr(0)
    /\ pres.arg \in regions
    /\ \E q \in kpages : q[1] = FreshSlots(1)

\* C23: temporarily_map_region maps the whole region read-write, then calls
\* the caller's function exactly once, then unmaps the whole region, in that
\* order; the function is not called when the mapping fails; when the call
\* returns Ok every page of the region is unmapped again and the caller's
\* region is still Exclusive and Unmapped.
C23_Step ==
    (pres'.op = "temporarily_map_region") =>
        LET R == pres'.arg
            K == NumPages(R.bits)
            tr == ptrace'
            calls == { j \in 1 .. Len(tr) : tr[j].ev = "call" }
            unmaps == { j \in 1 .. Len(tr) : tr[j].ev = "unmap" }
            mapped == { j \in 1 .. Len(tr) :
                          /\ tr[j].ev = "map" /\ tr[j].node = 0
                          /\ tr[j].res = MOk }
        IN  /\ Cardinality(calls) <= 1
            /\ \A j \in 1 .. Len(tr) : tr[j].ev = "map" => tr[j].rights = "RW"
            /\ (calls # {}) <=> (pres'.layers = MOk /\ Cardinality(mapped) = K)
            /\ (calls = {}) => (unmaps = {} /\ pres'.ret.tag # "Ok")
            /\ \A c \in calls :
                  /\ \A j \in 1 .. c - 1 : tr[j].ev \in {"map", "retype"}
                  /\ unmaps = c + 1 .. Len(tr)
                  /\ \A j \in unmaps : tr[j].item = R.start_cptr + (j - c - 1)
                  /\ \A i \in 0 .. K - 1 : \E j \in mapped :
                        /\ tr[j].item = R.start_cptr + i
                        /\ Cardinality({ x \in mapped : x < j }) = i
            /\ (pres'.ret.tag = "Ok") =>
                  /\ Cardinality(calls) = 1
                  /\ Cardinality(unmaps) = K
                  /\ \A j \in unmaps : tr[j].res = MOk
                  /\ \A q \in kpages' :
                        q[1] \notin { R.start_cptr + i : i \in 0 .. K - 1 }
                  /\ R = UnmappedMemoryRegion(R.start_cptr, R.bits, Exclusive)
                  /\ R \in regions'

C23_TemporaryMapping == [][C23_Step]_vars

\* a region was mapped for the function and unmapped again
C23_Witness ==
    /\ pres.op = "temporarily_map_region" /\ pres.ret.tag = "Ok"
    /\ \E j \in 1 .. Len(ptrace) : ptrace[j].ev = "call"
    /\ ptrace[Len(ptrace)].ev = "unmap"
    /\ kpages = {} /\ handed # {}
    /\ pres.arg \in regions

-----------------------------------------------------------------------------
(* Further properties of the capability algebra *)

\* C24: copy_local issues one seL4_CNode_Copy from the source's slot into the
\* slot taken from the destination table; the source handle is not consumed
\* and keeps its slot index, whether the kernel accepts the copy or not; on
\* success the call returns a second handle whose slot index is the
\* destination slot, and a view of the destination table with exactly that
\* slot less.
C24_CopyContract ==
    (res.op = "copy_local" /\ res.status # "rejected") =>
        LET s == res.view.next_free_slot
        IN  /\ Len(kcalls) = 1
            /\ kcalls[1].c = CopyCall(res.view.cptr, s, RootCNodeCptr,
                                      res.src.cptr, res.arg)
            /\ BagIn(res.src, handles)
            /\ (res.status = "ok") =>
                  /\ res.handles = << Capability(s, res.src.type, res.src.bits) >>
                  /\ res.handles[1].cptr # res.src.cptr
                  /\ BagIn(res.handles[1], handles)
                  /\ Len(res.views) = 1
                  /\ res.views[1].free = res.view.free - 1
                  /\ ViewSlots(res.views[1]) =
                        ViewSlots(res.view) \ {<<res.view.cptr, s>>}
                  /\ BagIn(res.views[1], views)
                  /\ HasCap(res.view.cptr, s)
                  /\ HasCap(RootCNodeCptr, res.src.cptr)

\* a handle was copied and both the source and the copy are live
C24_Witness ==
    /\ res.op = "copy_local" /\ res.status = "ok"
    /\ BagIn(res.src, handles)
    /\ BagIn(res.handles[1], handles)
    /\ res.view.free >= 2

-----------------------------------------------------------------------------
(* Further properties of the VSpace *)

\* C25: the sharing status of a region goes one way: to_shared makes a Shared
\* unmapped region of an Exclusive unmapped one, and no call of map_region,
\* map_shared_region, map_shared_region_and_consume, unmap_region or
\* temporarily_map_region hands back as Exclusive a region, mapped or
\* unmapped, that was Shared.
C25_Step ==
    /\ \A r \in regions, q \in regions' :
          (r.start_cptr = q.start_cptr /\ r.ss = Shared) => q.ss = Shared
    /\ \A r \in regions', q \in regions' :
          (r.start_cptr = q.start_cptr) => r.ss = q.ss
    /\ (pres'.arg.ss = Shared /\ pres'.out # NoRegion) => pres'.out.ss = Shared
    /\ (pres'.op \in {"map_region", "temporarily_map_region", "to_shared"}) =>
          pres'.arg.ss = Exclusive
    /\ (pres'.op = "to_shared") =>
          /\ pres'.arg.state = "Unmapped"
          /\ pres'.out = UnmappedMemoryRegion(pres'.arg.start_cptr,
                                              pres'.arg.bits, Shared)
          /\ pres'.out \in regions'
          /\ pres'.arg \notin regions'

C25_SharingIsOneWay == [][C25_Step]_vars

\* a region the caller kept as Exclusive through an earlier call is made Shared
C25_Witness ==
    /\ pnops = 2
    /\ pres.op = "to_shared"
    /\ pres.arg.start_cptr = FreshCptr(0)
    /\ pres.arg.ss = Exclusive
    /\ pres.out \in regions /\ pres.out.ss = Shared
    /\ \A r \in regions : r.start_cptr = FreshCptr(0) => r.ss = Shared

\* the operations that consume the handle they are called on
ConsumingOps == UntypedOps \cup {"call_channel_with_waker"}

\* C26: a capability handle denotes exclusive ownership: no two live handles
\* held by callers name the same slot of the same capability table, and a
\* handle consumed by a retype, split or quarter is never live again.
C26_ExclusiveHandles ==
    /\ \A h \in BagToSet(handles) :
          /\ CopiesIn(h, handles) = 1
          /\ \A g \in BagToSet(handles) :
                (g.cptr = h.cptr /\ g.role = h.role) => g = h
    /\ (res.op \in ConsumingOps /\ kcalls # <<>>) => ~BagIn(res.src, handles)
    /\ \A h \in dead : ~BagIn(h, handles)

\* the pages the calls of trace tr mapped
PagesMapped(tr) ==
    { j \in 1 .. Len(tr) : tr[j].ev = "map" /\ tr[j].node = 0 /\ tr[j].res = MOk }

\* C27: a call that would move the address cursor beyond the largest usize
\* fails with ExceededAvailableAddressSpace and leaves the cursor where it
\* was: skip_pages when n * page size or cursor + bytes is not representable;
\* and the advance made for each mapped page never leaves the range, so the
\* cursor is never wrapped around.
C27_Step ==
    /\ next_addr' \in 0 .. UsizeMax
    /\ (pres'.op = "skip_pages") =>
          IF \/ pres'.count > UsizeMax \div PageBytes
             \/ next_addr + PageBytes * pres'.count > UsizeMax
          THEN /\ pres'.ret.tag = "ExceededAvailableAddressSpace"
               /\ next_addr' = next_addr
          ELSE pres'.ret.tag = "Ok"
    /\ (pres'.op \in MapOps) =>
          LET target == next_addr + CursorStep * Cardinality(PagesMapped(ptrace'))
          IN  /\ target <= UsizeMax
              /\ next_addr' = target

C28_NoPanic == pres.ret.tag # "panic"

\* C29: the paging chain has as many nodes as the architecture has translation
\* levels, 2 on 32-bit ARM and 4 on aarch64, the leaf-most first and the one
\* next to the root last; so one page-map request ends after visiting each
\* node at most once on the way out, with at most depth - 1 structures
\* retyped and at most 3 * (depth - 1) + 1 calls, whatever the kernel answers.
C29_ChainDepth ==
    \A j \in 1 .. Len(ptrace) :
        (ptrace[j].ev = "map" /\ ptrace[j].node = 0 /\ ptrace[j].site = "first") =>
            LET levels == IF arch = "arm" THEN 2 ELSE 4
                call == j .. CallEnd(j)
                out == { m \in call : ptrace[m].site \in {"first", "top"} }
                built == { m \in call : ptrace[m].ev = "retype" }
            IN  /\ \A m \in call : ptrace[m].node \in 0 .. levels - 1
                /\ \A m \in out :
                      /\ ptrace[m].node = Cardinality({ x \in out : x < m })
                      /\ ptrace[m].site = "top" <=> ptrace[m].node = levels - 1
                /\ \A m \in built :
                      /\ ptrace[m].node \in 1 .. levels - 1
                      /\ \A x \in built : ptrace[x].node = ptrace[m].node => x = m
                /\ Cardinality(built) <= levels - 1
                /\ Cardinality(call) <= 3 * (levels - 1) + 1

\* a page mapped on aarch64 with every structure above it missing: the request
\* reaches the node next to the root and three structures are retyped
C29_Witness ==
    /\ arch = "aarch64" /\ pres.op = "map_given_page"
    /\ \E m \in 1 .. Len(ptrace) : ptrace[m].site = "top" /\ ptrace[m].node = 3
    /\ Cardinality(RetypeCalls(ptrace)) = 3
    /\ pres.ret.tag = "Ok"

-----------------------------------------------------------------------------
(* Properties of the boot-time allocator *)

\* the free non-device items that are big enough for a request of BitSize
BigEnough(its, BitSize) ==
    { i \in 1 .. Len(its) :
        its[i].is_free /\ its[i].isDevice = 0 /\ its[i].sizeBits >= BitSize }

\* C30: get_untyped for a requested size B hands out the smallest free
\* non-device item that is big enough: whenever a free non-device item of
\* size >= B exists the call returns a block, and the block it returns is one
\* of the smallest such size, which is then no longer free.
C30_Step ==
    (ares'.op = "get_untyped") =>
        LET want == ares'.BitSize
            big == BigEnough(items, want)
        IN  /\ (big # {}) => ares'.u.tag = "Some"
            /\ (ares'.u.tag = "Some") =>
                  \E i \in big :
                      /\ items[i].cptr = ares'.u.cptr
                      /\ \A x \in big : items[i].sizeBits <= items[x].sizeBits
                      /\ ~items'[i].is_free

C30_SmallestBigEnough == [][C30_Step]_vars

-----------------------------------------------------------------------------
(* Properties of process set-up, of the slot ledger and of the allocator.   *)

\* C31: in a child address space built with the ReadOnly configuration every
\* code page is a copy made with read-only rights and mapped with read-only
\* rights, in image order at consecutive cursor addresses (page i of the image
\* one page size after page i - 1), and no code page is mapped writable.
C31_Step ==
    \* a construction that no kernel call refused and that ran out of nothing
    (/\ pres'.op = "new"
     /\ (pres'.ret.tag = "Ok" \/ pres'.layers = AddrNotPageAligned)) =>
        LET copied == { j \in 1 .. Len(ptrace') : ptrace'[j].ev = "copy" }
            leaf == { j \in 1 .. Len(ptrace') :
                        ptrace'[j].ev = "map" /\ ptrace'[j].node = 0 }
        IN  /\ \A j \in copied \cup leaf : ptrace'[j].rights = "R"
            /\ pres'.ret.tag = "Ok"
            /\ \A i \in 0 .. pres'.count - 1 :
                  \E c \in copied, j \in leaf :
                     /\ c < j
                     /\ ptrace'[c].addr = i
                     /\ ptrace'[c].item = vs_slots.offset + i
                     /\ ptrace'[j].item = vs_slots.offset + i
                     /\ ptrace'[j].res = MOk
                     /\ ptrace'[j].addr = next_addr + i * PageBytes
                     /\ <<vs_slots.offset + i, next_addr + i * PageBytes>>
                            \in kpages'

C31_ReadOnlyCodePages == [][C31_Step]_vars

\* C32: a successful retype_local_cnode with radix R takes exactly one slot of
\* the parent table (capacity F becomes F-1, next free slot s becomes s+1) and
\* returns a child table with exactly 2^R free slots, next free slot 0 and, as
\* its own slot index, the parent slot s that was taken, where the kernel now
\* holds a capability table of radix R.
C32_RetypeLocalCNode ==
    (res.op = "retype_local_cnode" /\ res.status = "ok") =>
        LET R == res.arg
            F == res.view.free
            s == res.view.next_free_slot
            child == res.views[1]
            parent == res.views[2]
        IN  /\ Len(res.views) = 2 /\ res.handles = <<>>
            /\ parent = CNode(res.view.radix, s + 1, res.view.cptr, F - 1,
                              res.view.role)
            /\ child.free = Pow2(R) /\ child.radix = R
            /\ child.next_free_slot = 0
            /\ child.cptr = s
            /\ child.role = "ChildProcess"
            /\ BagIn(child, views) /\ BagIn(parent, views)
            /\ ~BagIn(res.view, views)
            /\ kcalls = << Logged(RetypeCall(res.src.cptr, "CNode", R,
                                             res.view.cptr, s, 1), 0) >>
            /\ \E c \in kcaps : /\ c.table = res.view.cptr /\ c.slot = s
                                /\ c.type = "CNode" /\ c.bits = R

C32_Witness ==
    /\ res.op = "retype_local_cnode" /\ res.status = "ok"
    /\ res.arg = MaxChildRadix
    /\ res.view.next_free_slot > RootNextFreeSlot
    /\ res.views[1].cptr # res.view.cptr

\* C33: constructing an Imaged VSpace with fewer slots than the user image has
\* code pages fails with InsufficientCNodeSlots before any kernel call: the
\* identifier is not assigned to the root, no page is copied, no page is
\* mapped, and nothing of the VSpace's supplies is used; with enough slots the
\* construction does not fail that way.
C33_Step ==
    (pres'.op = "new") =>
        IF pres'.count > vs_slots.size
        THEN /\ pres'.ret.tag = "InsufficientCNodeSlots"
             /\ ptrace' = <<>>
             /\ UNCHANGED <<pk, kpages, vs_untyped, vs_slots, next_addr, handed>>
        ELSE pres'.ret.tag # "InsufficientCNodeSlots"

C33_InsufficientSlots == [][C33_Step]_vars

C33_Witness ==
    /\ pres.op = "new" /\ pres.ret.tag = "InsufficientCNodeSlots"
    /\ pres.count = MaxImagePages /\ vs_slots.size = MaxImagePages - 1
    /\ ptrace = <<>> /\ kpages = {}

\* the positions of a trace at which the page with capability c is offered to
\* the leaf layer
LeafTries(tr, c) ==
    { j \in 1 .. Len(tr) : tr[j].ev = "map" /\ tr[j].node = 0 /\ tr[j].item = c }

\* C34: a map_given_page that fails leaves the cursor where it was and maps no
\* page; a map_region whose page j fails returns the error at once: pages j+1
\* and later are never offered to the kernel, no mapped region is returned,
\* the cursor is the one page j was offered (its value after the j mappings
\* that succeeded), and pages 0 .. j-1 stay mapped where they were mapped.
C34_Step ==
    /\ (pres'.op = "map_given_page" /\ pres'.ret.tag # "Ok") =>
           /\ next_addr' = next_addr
           /\ kpages' = kpages
    /\ (pres'.op \in RegionMapOps /\ pres'.ret.tag # "Ok") =>
           LET c0 == pres'.arg.start_cptr
               done == { i \in 0 .. pres'.count - 1 :
                           \E q \in kpages' \ kpages : q[1] = c0 + i }
               j == Cardinality(done)
               tries == LeafTries(ptrace', c0 + j)
           IN  /\ done = 0 .. j - 1
               /\ j < pres'.count
               /\ tries # {}
               /\ \A t \in tries : next_addr' = ptrace'[t].addr
               /\ j = 0 => next_addr' = next_addr
               /\ \A i \in j + 1 .. pres'.count - 1 :
                     LeafTries(ptrace', c0 + i) = {}
               /\ pres'.out = NoRegion
               /\ \A r \in regions' : r.state = "Mapped" => r \in regions
               /\ kpages \subseteq kpages'
               /\ Cardinality(kpages') = Cardinality(kpages) + j

C34_FailedMapStopsAtOnce == [][C34_Step]_vars

C34_Witness ==
    /\ pres.op = "map_region" /\ pres.ret.tag # "Ok" /\ pres.count = 2
    /\ \E a \in handed : /\ <<pres.arg.start_cptr, a>> \in kpages
                         /\ next_addr > a
    /\ LeafTries(ptrace, pres.arg.start_cptr + 1) # {}

\* C35: for every page i of a MappedMemoryRegion that map_region returns, the
\* address MappedPageRange::iter reports for the page (region base + i * page
\* size) is the address at which the kernel map call for that page was issued
\* and accepted, and the kernel has the page mapped there.
C35_Step ==
    (pres'.op \in RegionMapOps /\ pres'.ret.tag = "Ok") =>
        \A i \in 0 .. pres'.count - 1 :
            LET pg == MappedPage(pres'.out, i)
            IN  /\ pg.cptr = pres'.arg.start_cptr + i
                /\ \E j \in LeafTries(ptrace', pg.cptr) :
                      /\ ptrace'[j].res = MOk
                      /\ ptrace'[j].addr = pg.vaddr
                /\ <<pg.cptr, pg.vaddr>> \in kpages'

C35_RecordedAddressIsMapped == [][C35_Step]_vars

\* a region mapped after the cursor was moved off the start of the space
C35_Witness ==
    /\ pres.op = "map_region" /\ pres.ret.tag = "Ok"
    /\ pres.out.vaddr >= PageBytes
    /\ <<pres.out.start_cptr, MappedPage(pres.out, 0).vaddr>> \in kpages
    /\ pres.out \in regions

\* C36: when, after an absent-entry answer of its own layer, a node's retype of
\* the outer layer's granule fails (no slot left, or the kernel refuses, as
\* with an exhausted supply), the node returns RetypingError: the failed
\* retype is the last thing the call does (the outer layer is not asked to map
\* anything and the item is not offered again) and the call fails with
\* MappingError(RetypingError).
C36_RetypeFailureEndsTheCall ==
    \A j \in 1 .. Len(ptrace) :
        (ptrace[j].ev = "retype" /\ ptrace[j].res # MOk) =>
            /\ ptrace[j].res = RetypingError
            /\ j = Len(ptrace)
            /\ j > 1
            /\ ptrace[j - 1].ev = "map"
            /\ ptrace[j - 1].res = Overflow
            /\ ptrace[j - 1].node = ptrace[j].node - 1
            /\ pres.layers = RetypingError
            /\ pres.ret.tag = "MappingError" /\ pres.ret.m = "RetypingError"

\* the second structure of a chain could not be made: the kernel refused the
\* retype after the first was built and mapped
C36_Witness ==
    /\ Len(ptrace) > 3
    /\ ptrace[Len(ptrace)].ev = "retype"
    /\ ptrace[Len(ptrace)].res = RetypingError
    /\ ptrace[Len(ptrace)].site = "retype"
    /\ pres.ret.m = "RetypingError"

\* the slots of a table that hold a capability or were taken by a failed call
UsedSlots == spent \cup { <<c.table, c.slot>> : c \in kcaps }

\* C37: over any sequence of consume_slot (through split, quarter, the retype
\* operations and copy), reserve_region and reservation_iter on the views
\* derived from one capability table, each slot index is handed out at most
\* once: live views never overlap, no live view covers a slot that was already
\* handed out, and every view a call returns lies within the range of the view
\* the call was given (its next free slot plus its capacity never passes the
\* end of that range).
C37_Inv ==
    /\ \A v \in BagToSet(views) :
          /\ v.free > 0 => CopiesIn(v, views) = 1
          /\ ViewSlots(v) \cap UsedSlots = {}
          /\ v.next_free_slot + v.free <=
                IF v.role = "CSpaceRoot" THEN RootNextFreeSlot + MaxRootSlots
                ELSE Pow2(v.radix)
    /\ \A v, w \in BagToSet(views) :
          v # w => ViewSlots(v) \cap ViewSlots(w) = {}

C37_Step ==
    (res'.status # "rejected") =>
        LET v == res'.view
            taken == IF res'.op \in {"reserve_region", "reservation_iter"}
                     THEN {} ELSE SlotsTaken(res')
        IN  /\ BagIn(v, views)
            /\ taken \subseteq ViewSlots(v)
            /\ taken \cap UsedSlots = {}
            /\ \A u \in BagToSet(views') : ViewSlots(u) \cap taken = {}
            /\ \A i \in 1 .. Len(res'.views) :
                  LET u == res'.views[i]
                  IN  u.cptr = v.cptr =>
                         /\ u.next_free_slot >= v.next_free_slot
                         /\ u.next_free_slot + u.free
                               <= v.next_free_slot + v.free
                         /\ ViewSlots(u) \cap taken = {}
            /\ \A i, j \in 1 .. Len(res'.views) :
                  i # j => ViewSlots(res'.views[i])
                              \cap ViewSlots(res'.views[j]) = {}

C37_SlotsHandedOutOnce == []C37_Inv /\ [][C37_Step]_vars

\* a slot taken out of a reserved view while the views next to it are live
C37_Witness ==
    /\ res.op \in UntypedOps /\ res.status = "ok"
    /\ res.view.cptr = RootCNodeCptr
    /\ \E u, w \in BagToSet(views) :
          /\ u.cptr = RootCNodeCptr /\ w.cptr = RootCNodeCptr
          /\ u.free > 0 /\ w.free > 0
          /\ u.next_free_slot + u.free <= res.view.next_free_slot
          /\ w.next_free_slot > res.view.next_free_slot

\* C38: the allocator hands out each untyped item at most once. A call that
\* returns a capability returns the slot index of an item that was free and
\* marks that item, and no other, taken; a taken item never becomes free
\* again; a call that returns nothing changes no item; so no two returned
\* capabilities have the same slot index.
C38_Step ==
    (ares'.op \in {"get_untyped", "get_device_untyped"}) =>
        /\ Len(items') = Len(items)
        /\ \A i \in 1 .. Len(items) :
              /\ items'[i] = [items[i] EXCEPT !.is_free = items'[i].is_free]
              /\ ~items[i].is_free => ~items'[i].is_free
        /\ \A i, k \in 1 .. Len(items) : i # k => items[i].cptr # items[k].cptr
        /\ IF ares'.u.tag = "None" THEN items' = items
           ELSE \E i \in 1 .. Len(items) :
                   /\ items[i].cptr = ares'.u.cptr
                   /\ items[i].is_free /\ ~items'[i].is_free
                   /\ \A k \in 1 .. Len(items) : k # i => items'[k] = items[k]
        /\ (ares.u.tag = "Some" /\ ares'.u.tag = "Some") =>
              ares'.u.cptr # ares.u.cptr

C38_HandedOutOnce == [][C38_Step]_vars

\* the second of two requests for one size was given the second item of that
\* size, the first being taken
C38_Witness ==
    /\ anops = 2 /\ ares.u.tag = "Some"
    /\ \E i, k \in 1 .. Len(items) :
          /\ i < k
          /\ items[k].cptr = ares.u.cptr
          /\ items[i].sizeBits = items[k].sizeBits
          /\ items[i].isDevice = items[k].isDevice
          /\ ~items[i].is_free /\ ~items[k].is_free

\* the descriptors of boot information bi that UntypedItem::new refuses
Refused(bi) ==
    { i \in 1 .. Len(bi.untypedList) :
        \/ bi.start + i - 1 = 0
        \/ bi.untypedList[i].sizeBits < MIN_UNTYPED_SIZE_BITS
        \/ bi.untypedList[i].sizeBits > MAX_UNTYPED_SIZE_BITS }

\* C39: Allocator::bootstrap accepts the boot inventory only if every listed
\* untyped has a non-zero slot index and a size within [4, 32] bits. The first
\* item that is refused decides the error, InvalidBootInfoCapability for slot
\* index 0 and UntypedSizeOutOfRange for a size out of range, and no allocator
\* is returned; on success there is one item per descriptor, in inventory
\* order, each with its slot index and descriptor, and each free until a
\* request takes it.
C39_BootstrapChecksInventory ==
    (booted # "no") =>
        LET l == bootinfo.untypedList
            bad == Refused(bootinfo)
        IN  /\ booted = "Ok" <=> bad = {}
            /\ (bad # {}) =>
                  /\ booted = IF bootinfo.start + SetMin(bad) - 1 = 0
                              THEN "InvalidBootInfoCapability"
                              ELSE "UntypedSizeOutOfRange"
                  /\ items = <<>> /\ anops = 0
            /\ (bad = {}) =>
                  /\ Len(items) = Len(l)
                  /\ \A i \in 1 .. Len(l) :
                        /\ items[i].cptr = bootinfo.start + i - 1
                        /\ items[i].sizeBits = l[i].sizeBits
                        /\ items[i].isDevice = l[i].isDevice
                        /\ items[i].paddr = l[i].paddr
                        /\ anops = 0 => items[i].is_free

\* the second descriptor is too large, the third too small: the second decides
C39_Witness ==
    /\ booted = "UntypedSizeOutOfRange"
    /\ Len(bootinfo.untypedList) = MaxItems
    /\ bootinfo.untypedList[1].sizeBits \in AllocBits
    /\ bootinfo.untypedList[2].sizeBits = MAX_UNTYPED_SIZE_BITS + 1
    /\ bootinfo.untypedList[3].sizeBits = MIN_UNTYPED_SIZE_BITS - 1
    /\ items = <<>>

-----------------------------------------------------------------------------
(* Properties of the responder loop *)

\* the loop holds a regular message whose length is not the request's
Stale == rpc = "loop" /\ sender_badge = 0 /\ msg_len # ReqWords

\* C40: when a regular (badge 0) message arrives whose length differs from
\* the expected request length, the handler function is not invoked on it and
\* no reply and no further receive is issued: every later turn of the loop
\* finds the same message again, so from then on the responder handles
\* nothing more and the caller stays blocked.
C40_Inv ==
    Stale =>
        /\ rlog # <<>>
        /\ rlog[Len(rlog)] = REvent("recv", 0, msg_len)
        /\ awaiting

C40_Step ==
    Stale =>
        /\ Stale'
        /\ UNCHANGED <<rlog, sender_badge, msg_len, awaiting>>

C40_WrongSizeSpinsForever == []C40_Inv /\ [][C40_Step]_vars

\* the third message is short by a word, after a request was served and a
\* notification handled; the loop has come round more than once since
C40_Witness ==
    /\ Stale /\ msg_len = ReqWords - 1 /\ spins >= 2
    /\ \E j \in 1 .. Len(rlog) : rlog[j].ev = "reply"
    /\ \E j \in 1 .. Len(rlog) : rlog[j].ev = "g"

====
